---- MODULE Spec2Model ----
(***************************************************************************)
(* Build Monitor daemon (src/scripts/build-monitor.py): the Log Streamer's  *)
(* phase state machine, the bounded log and issue buffers, the Issue        *)
(* Detector and the HTTP API, as a state machine.                           *)
(*                                                                          *)
(* Strings are TLC strings; `in`, lower(), strip() and the two regular      *)
(* expressions of the source are computed character by character.  The      *)
(* source's emoji icons cannot be written in a TLA+ string and are written  *)
(* as ASCII tags ("<check>" for the check mark, ...); no tag contains a     *)
(* substring any classifier or signature tests for.                         *)
(***************************************************************************)
EXTENDS Integers, Sequences, FiniteSets, TLC

(***************************************************************************)
(* Python string primitives                                                 *)
(***************************************************************************)

\* s[i] as a one-character string
CharAt(s, i) == SubSeq(s, i, i)

\* Python: pat in s
Contains(s, pat) ==
    \E i \in 1..(Len(s) - Len(pat) + 1) : SubSeq(s, i, i + Len(pat) - 1) = pat

UpperLetters == "ABCDEFGHIJKLMNOPQRSTUVWXYZ"
LowerLetters == "abcdefghijklmnopqrstuvwxyz"

LowerChar(c) ==
    IF \E k \in 1..26 : CharAt(UpperLetters, k) = c
    THEN CharAt(LowerLetters, CHOOSE k \in 1..26 : CharAt(UpperLetters, k) = c)
    ELSE c

\* the characters i..j of s in lower case, by halves (a long line stays shallow)
RECURSIVE LowerFrom(_, _, _)
LowerFrom(s, i, j) ==
    IF i > j THEN ""
    ELSE IF i = j THEN LowerChar(CharAt(s, i))
    ELSE LET mid == (i + j) \div 2
         IN  LowerFrom(s, i, mid) \o LowerFrom(s, mid + 1, j)

\* Python: s.lower()
Lower(s) == LowerFrom(s, 1, Len(s))

UpperChar(c) ==
    IF \E k \in 1..26 : CharAt(LowerLetters, k) = c
    THEN CharAt(UpperLetters, CHOOSE k \in 1..26 : CharAt(LowerLetters, k) = c)
    ELSE c

RECURSIVE UpperFrom(_, _)
UpperFrom(s, i) == IF i > Len(s) THEN "" ELSE UpperChar(CharAt(s, i)) \o UpperFrom(s, i + 1)

\* Python: s.upper()
Upper(s) == UpperFrom(s, 1)

IsSpace(c) == c = " "

IsDigit(c) == \E k \in 1..10 : CharAt("0123456789", k) = c

\* Python: s.rstrip()
RStrip(s) ==
    LET keep == {i \in 1..Len(s) : ~IsSpace(CharAt(s, i))}
    IN  IF keep = {} THEN "" ELSE SubSeq(s, 1, CHOOSE i \in keep : \A j \in keep : j <= i)

\* Python: s.strip()
Strip(s) ==
    LET keep == {i \in 1..Len(s) : ~IsSpace(CharAt(s, i))}
    IN  IF keep = {} THEN ""
        ELSE SubSeq(s, CHOOSE i \in keep : \A j \in keep : i <= j,
                       CHOOSE i \in keep : \A j \in keep : j <= i)

\* Python: s[:n] for n >= 0
Truncate(s, n) == IF Len(s) <= n THEN s ELSE SubSeq(s, 1, n)

(***************************************************************************)
(* Icons of the source, as ASCII tags                                       *)
(***************************************************************************)
IconRocket   == "<rocket>"      \* U+1F680
IconPackage  == "<package>"     \* U+1F4E6
IconClip     == "<clipboard>"   \* U+1F4CB
IconWarn     == "<warning>"     \* U+26A0 U+FE0F
IconCheck    == "<check>"       \* U+2713
IconInbox    == "<inbox>"       \* U+1F4E5
IconDocker   == "<whale>"       \* U+1F433
IconWhale2   == "<whale2>"      \* U+1F40B
IconGpu      == "<gamepad>"     \* U+1F3AE
IconChart    == "<chart>"       \* U+1F4CA
IconGear     == "<gear>"        \* U+2699 U+FE0F
IconCross    == "<cross>"       \* U+274C
IconScroll   == "<scroll>"      \* U+1F4DC
IconInfo     == "<info>"        \* U+2139 U+FE0F
IconBug      == "<bug>"         \* U+1F41B
IconSiren    == "<siren>"       \* U+1F6A8
IconArrow    == "<arrow>"       \* U+2192

\* Python's None, as returned by format_cloud_init_line
None == "<None>"

(***************************************************************************)
(* LogStreamer.format_cloud_init_line                                       *)
(***************************************************************************)
noise_patterns ==
    { "dpkg-preconfigure", "update-alternatives", "ldconfig deferred processing",
      "Processing triggers", "Setting up man-db" }

important_keywords ==
    { "install", "download", "pull", "start", "complete",
      "error", "warn", "fail", "success", "docker", "gpu",
      "building", "running", "configured", "enabled" }

\* any(pattern in line for pattern in noise_patterns)
IsNoise(line) == \E p \in noise_patterns : Contains(line, p)

\* re.search(r'(Setting up|Unpacking) ([^\s]+)', line): the positions where group 2
\* starts, for every match start
PackageStarts(line) ==
    { j \in 1..Len(line) :
        /\ ~IsSpace(CharAt(line, j))
        /\ \E w \in {"Setting up ", "Unpacking "} :
              j - Len(w) >= 1 /\ SubSeq(line, j - Len(w), j - 1) = w }

\* match.group(2) of the leftmost match: the longest run of non-space characters
PackageToken(line) ==
    LET j == CHOOSE a \in PackageStarts(line) : \A b \in PackageStarts(line) : a <= b
        ends == { e \in j..Len(line) : \A k \in j..e : ~IsSpace(CharAt(line, k)) }
        e == CHOOSE a \in ends : \A b \in ends : b <= a
    IN  SubSeq(line, j, e)

\* the rules after the noise filter, first match wins
CloudInitRules(line) ==
    LET low == Lower(line)
    IN  IF Contains(line, "Pulling") \/ Contains(line, "Downloading")
             THEN IconInbox \o " " \o line
        ELSE IF Contains(line, "Pull complete") \/ Contains(line, "Download complete")
             THEN IconCheck \o " " \o line
        ELSE IF Contains(line, "Setting up") \/ Contains(line, "Unpacking")
             THEN IF PackageStarts(line) # {}
                  THEN IconPackage \o " Installing " \o PackageToken(line)
                  ELSE IconPackage \o " " \o line
        ELSE IF Contains(low, "docker") /\ (Contains(low, "start") \/ Contains(low, "enable"))
             THEN IconDocker \o " " \o line
        ELSE IF \E k \in {"nvidia", "gpu", "cuda"} : Contains(low, k)
             THEN IF Contains(line, "nvidia-smi")
                  THEN IconGpu \o " GPU drivers verified"
                  ELSE IconGpu \o " " \o line
        ELSE IF Contains(low, "build-monitor") \/ Contains(low, "buildwatch")
             THEN IconChart \o " " \o line
        ELSE IF Contains(line, "systemctl") /\ (Contains(line, "enable") \/ Contains(line, "start"))
             THEN IconGear \o "  " \o line
        ELSE IF Contains(low, "error") \/ Contains(low, "failed")
             THEN IconCross \o " " \o line
        ELSE IF Contains(low, "warn")
             THEN IconWarn \o "  " \o line
        ELSE IF Contains(low, "success") \/ Contains(low, "complete") \/ Contains(line, IconCheck)
             THEN IconCheck \o " " \o line
        ELSE IF \E k \in important_keywords : Contains(low, k)
             THEN "   " \o line
        ELSE None

\* a classifier that looks for errors before it filters noise
format_cloud_init_line_ErrorFirst(raw) ==
    LET line == Strip(raw)
    IN  IF Contains(Lower(line), "error") \/ Contains(Lower(line), "failed")
        THEN IconCross \o " " \o line
        ELSE IF IsNoise(line) THEN None ELSE CloudInitRules(line)

\* the noise filter left out
format_cloud_init_line_NoFilter(raw) == CloudInitRules(Strip(raw))

format_cloud_init_line(raw) ==
    LET line == Strip(raw)
    IN  IF IsNoise(line) THEN None ELSE CloudInitRules(line)

(***************************************************************************)
(* LogStreamer.format_container_log_line                                    *)
(***************************************************************************)
\* re.match(r'^\[?\d{4}-\d{2}-\d{2}', line)
HasDatePrefix(line) ==
    \E o \in {0, 1} :
        /\ o = 1 => (Len(line) >= 1 /\ CharAt(line, 1) = "[")
        /\ Len(line) >= o + 10
        /\ \A k \in {1, 2, 3, 4, 6, 7, 9, 10} : IsDigit(CharAt(line, o + k))
        /\ CharAt(line, o + 5) = "-"
        /\ CharAt(line, o + 8) = "-"

\* a formatter that looks for WARN before ERROR
format_container_log_line_WarnFirst(raw) ==
    LET line == Strip(raw)
    IN  IF HasDatePrefix(line) /\ (Contains(line, "WARN") \/ Contains(line, " W "))
        THEN IconWarn \o "  " \o line
        ELSE "   " \o line

\* the keyword cascade after the structured-log branch
ContainerKeywordFormat(line) ==
    LET line_lower == Lower(line)
    IN  IF Contains(line_lower, "error") \/ Contains(line_lower, "exception")
           \/ Contains(line_lower, "failed")
        THEN IconCross \o " " \o line
        ELSE IF Contains(line_lower, "warn") \/ Contains(line_lower, "warning")
        THEN IconWarn \o "  " \o line
        ELSE IF Contains(line_lower, "success") \/ Contains(line_lower, "started")
                \/ Contains(line_lower, "ready")
        THEN IconCheck \o " " \o line
        ELSE "   " \o line

format_container_log_line(raw) ==
    LET line == Strip(raw)
    IN  IF HasDatePrefix(line) /\ (Contains(line, "ERROR") \/ Contains(line, " E "))
        THEN IconCross \o " " \o line
        ELSE IF HasDatePrefix(line) /\ (Contains(line, "WARN") \/ Contains(line, " W "))
        THEN IconWarn \o "  " \o line
        ELSE IF HasDatePrefix(line) /\ (Contains(line, "INFO") \/ Contains(line, " I "))
        THEN IconInfo \o "  " \o line
        ELSE IF HasDatePrefix(line) /\ (Contains(line, "DEBUG") \/ Contains(line, " D "))
        THEN IconBug \o " " \o line
        ELSE ContainerKeywordFormat(line)

(***************************************************************************)
(* Configuration and bounds.  The capacities, windows and timeouts of the   *)
(* source are scaled down so that TLC reaches "full", "window exceeded"     *)
(* and "timed out"; their order (DEDUP_WINDOW < SCAN_WINDOW <=              *)
(* DEFAULT_LINES < MAX_LOG_LINES, DEDUP_WINDOW < MAX_ISSUES) is the         *)
(* source's.                                                                *)
(***************************************************************************)
\* MAX_LOG_LINES = 1000 (line 32), scaled
MAX_LOG_LINES == 4
\* deque(maxlen=100) of IssueDetector.issues (line 393), scaled
MAX_ISSUES == 3
\* get_recent_logs(lines=100) default (line 365) and the /logs default (line 521), scaled
DEFAULT_LINES == 3
\* get_recent_logs(50) of the detector scan (line 401), scaled
SCAN_WINDOW == 3
\* list(self.issues)[-10:] (line 474), scaled
DEDUP_WINDOW == 2
\* timeout = 120 of stream_cloud_init (line 76), scaled; time.sleep(1) steps
CLOUD_INIT_TIMEOUT == 1
\* max_wait = 60 of _wait_for_docker (line 242), scaled; time.sleep(2) steps
DOCKER_MAX_WAIT == 1
\* timeout = 300 of stream_container_startup (line 207), scaled; time.sleep(3) steps
CONTAINER_TIMEOUT == 2
\* docker logs --tail 50 (line 273), scaled: lines of history per stream
HISTORY_TAIL == 1
\* line[:200] of check_log_line (line 423)
EVIDENCE_MAX == 200
\* lines the cloud-init log and the container log deliver in a behaviour
MaxLines == 2
\* log_line calls in a behaviour
MaxAppends == 40

\* lines the cloud-init log may deliver
ProvLines ==
    { "Processing triggers for install-info (6.8-4build1) ...",
      "Cloud-init v. 23.1 finished at Mon, 01 Jan 2024",
      "Cloud-init finished: all modules complete",
      "Setting up docker-ce (5:24.0.7) ...",
      "   " }

\* lines the container's log may deliver
ContainerLines ==
    { "Error: connect: connection refused",
      "Processing triggers for man-db (2.10.2-1) ...",
      "Fatal Python error: Segmentation fault (core dumped)" }

\* lines of the cloud-init log on which two classification rules meet, one for each
\* pair of neighbouring rules, and lines for the fallback, for no rule at all and for
\* a package line without a package name
ClassifierLines ==
    { "Processing triggers for libc-bin: 1 error",
      "Pulling fs layer: Pull complete",
      "Pull complete, Unpacking layers",
      "Unpacking docker-ce start script",
      "Starting docker.service on gpu node",
      "nvidia-smi: build-monitor check",
      "build-monitor: systemctl enable",
      "systemctl start app failed",
      "error: warning limit",
      "warning: success rate low",
      "Successfully installed",
      "app configured",
      "hello world",
      "Setting up" }

\* container lines for the level branch (two level tokens, one, none), for the
\* keyword branch (two keywords, one, none), a line with blanks around it and a
\* blank line
LevelLines ==
    { "2024-01-01 12:00:00 ERROR retry after WARN",
      "[2024-01-01] W cache INFO",
      "2024-01-01 INFO DEBUG mode on",
      "2024-01-01 D probe ok",
      "2024-01-01 connection failed",
      "2024-01-01 server listening",
      "ERROR 2024-01-01 warning: started",
      "Warning: service ready",
      "Server started",
      "listening on :8080",
      "  Exception in thread main  ",
      "   " }

\* container lines that carry several signatures at once: port_conflict with
\* permission, and oom ("137") with connection
SignatureLines ==
    { "listen tcp 0.0.0.0:80: bind: address already in use (permission denied)",
      "Killed (exit 137): cannot connect to the database" }

\* container lines whose issues are echoed with entries that match a signature again
FeedbackLines ==
    { "Fatal Python error: Segmentation fault (core dumped)",
      "Killed (exit 137): cannot connect to the database" }

\* container lines longer than line[:200]: the first two differ behind the 200th
\* character of their message only, the third differs from them before it
Filler16 == "0123456789abcdef"
Filler == Filler16 \o Filler16 \o Filler16 \o Filler16 \o Filler16 \o Filler16
          \o Filler16 \o Filler16 \o Filler16 \o Filler16 \o Filler16 \o Filler16
LongLines ==
    { "connection refused: " \o Filler \o " peer 10.0.0.1",
      "connection refused: " \o Filler \o " peer 10.0.0.2",
      "connection refused! " \o Filler \o " peer 10.0.0.1" }

\* the threads that use the buffers: LogStreamer, the detector's thread, and the
\* main thread, which runs the HTTP server and its handlers
LockThreads == { "streamer", "detector", "main" }

\* the values of the lines query parameter; NoParam: the parameter is absent
NoParam == "<absent>"
LinesParams == { NoParam, "-1", "0", "1", "2", "5", "abc" }

VARIABLES
    \* LogStreamer fields
    running, phase, cloud_init_complete, container_started, log_buffer,
    \* IssueDetector fields
    issues, det_running,
    \* outputs: the messages printed and the messages written to the log file, and
    \* what was printed on sys.stderr
    stdout, log_file, stderr,
    \* the streamer thread: position in run(), the locals `waited` and `line`, its
    \* subprocesses
    pc, waited, cur_line, tail_proc, follow_proc,
    \* the detector thread: position, the snapshot being scanned, next (entry, check)
    det_pc, det_logs, det_i, det_k,
    \* the main thread and the HTTP server it runs; the requests of the connections
    \* waiting in the listening socket's queue
    main_pc, http_resp, stream, backlog,
    \* environment: the cloud-init log file exists, the /stream client is connected,
    \* the log directory can be written
    ci_log_exists, client_connected, disk_ok,
    \* history: log_line calls so far, the issues published so far, lines delivered
    log_seq, published, lines_read
    ,
    \* LogStreamer.lock and IssueDetector.lock: the thread that holds each; each
    \* thread's position inside a buffer operation, the log_line calls it has still
    \* to make, and the value the handler has read for its response
    log_lock, issue_lock, lk_pc, lk_todo, lk_result

vars == << running, phase, cloud_init_complete, container_started, log_buffer,
           issues, det_running, stdout, log_file, pc, waited, cur_line, tail_proc, follow_proc,
           det_pc, det_logs, det_i, det_k, main_pc, http_resp, stream,
           backlog, ci_log_exists, client_connected, disk_ok, log_seq, published,
           lines_read, log_lock, issue_lock, lk_pc, lk_todo, lk_result, stderr >>

streamer_vars == << running, phase, cloud_init_complete, container_started >>
log_vars      == << log_buffer, stdout, log_file, log_seq, stderr >>
thread_vars   == << pc, waited, cur_line, tail_proc, follow_proc, lines_read >>
det_vars      == << issues, det_running, det_pc, det_logs, det_i, det_k, published >>
api_vars      == << http_resp, stream, client_connected, backlog >>
lock_vars     == << log_lock, issue_lock, lk_pc, lk_todo, lk_result >>

(***************************************************************************)
(* DeploymentPhase                                                          *)
(***************************************************************************)
CLOUD_INIT        == "cloud_init"
CONTAINER_STARTUP == "container_startup"
RUNTIME           == "runtime"

(***************************************************************************)
(* collections.deque(maxlen=cap).append                                     *)
(***************************************************************************)
\* append with no eviction
RingAppend_NoEvict(buf, e, cap) == Append(buf, e)

RingAppend(buf, e, cap) ==
    IF Len(buf) < cap THEN Append(buf, e)
    ELSE Append(SubSeq(buf, 2, Len(buf)), e)

(***************************************************************************)
(* Python list slicing                                                      *)
(***************************************************************************)
\* lst[start:] for any integer start
SliceFrom(lst, start) ==
    LET n    == Len(lst)
        from == IF start >= 0 THEN (IF start > n THEN n ELSE start)
                ELSE (IF n + start < 0 THEN 0 ELSE n + start)
    IN  SubSeq(lst, from + 1, n)

\* lst[-k:] as written in get_recent_logs and log_issue: the slice from -k
LastSlice(lst, k) == SliceFrom(lst, 0 - k)

(***************************************************************************)
(* LogStreamer.log_line and log_to_file, on the bundle of what they write   *)
(***************************************************************************)
LogState ==
    [ buf |-> log_buffer, seq |-> log_seq, out |-> stdout, file |-> log_file ]

\* log_to_file swallows a failed write: the line is then missing from the file
log_line(L, message, category) ==
    [ buf  |-> RingAppend(L.buf,
                          [ timestamp |-> L.seq + 1, message |-> message,
                            category |-> category ],
                          MAX_LOG_LINES),
      seq  |-> L.seq + 1,
      out  |-> L.out \cup {message},
      file |-> IF disk_ok THEN L.file \cup {message} ELSE L.file ]

\* a sequence of log_line calls that a failed write to the log file cuts short: the
\* exception of the first call leaves the caller
RECURSIVE LogAll_WriteRaises(_, _, _)
LogAll_WriteRaises(L, msgs, i) ==
    IF i > Len(msgs) THEN L
    ELSE IF ~disk_ok THEN log_line(L, msgs[i][1], msgs[i][2])
    ELSE LogAll_WriteRaises(log_line(L, msgs[i][1], msgs[i][2]), msgs, i + 1)

\* log_line for each of msgs (pairs <<message, category>>), in order
RECURSIVE LogAll(_, _, _)
LogAll(L, msgs, i) ==
    IF i > Len(msgs) THEN L
    ELSE LogAll(log_line(L, msgs[i][1], msgs[i][2]), msgs, i + 1)

\* the log_line calls of a step
Emit(msgs) ==
    /\ log_seq + Len(msgs) <= MaxAppends
    /\ LET L == LogAll(LogState, msgs, 1)
       IN  /\ log_buffer' = L.buf
           /\ log_seq' = L.seq
           /\ stdout' = L.out
           /\ log_file' = L.file
           /\ stderr' = stderr

(***************************************************************************)
(* Messages the streamer logs itself                                        *)
(***************************************************************************)
container_name == "app"
MsgStarted       == IconRocket \o " Build Monitor started"
MsgDeployment    == IconPackage \o " Deployment: unknown (unknown)"
MsgMonitoring    == IconClip \o " Monitoring cloud-init progress..."
MsgNoCloudInit   == IconWarn \o "  Cloud-init log not found, skipping to container startup"
MsgCloudInitDone == IconCheck \o " Cloud-init complete"
MsgCloudInitErr  == "Error streaming cloud-init: Command 'tail' timed out after 5 seconds"
MsgTailErr       == "Error streaming cloud-init: [Errno 2] No such file or directory: 'tail'"
MsgWaitContainer == IconWhale2 \o " Waiting for container to start..."
MsgNoDocker      == IconWarn \o "  Docker not available"
MsgWaitDocker    == "   Waiting for Docker to be ready..."
MsgWaitCreation  == "   Waiting for container creation..."
MsgDetected      == IconCheck \o " Container '" \o container_name \o "' detected"
MsgNoContainer   == IconWarn \o "  Container did not start within timeout"
MsgStreaming     == IconScroll \o " Streaming container logs..."
MsgLogsTimedOut  == "Container logs timed out"
MsgLogsErr       == "Error streaming container logs: [Errno 2] No such file or directory: 'docker'"
MsgListening     == "Build Monitor API listening on port 9090"
MsgShutdown      == "Shutting down..."

\* "Cloud-init" in line and "finished" in line
IsCompletionMarker(line) == Contains(line, "Cloud-init") /\ Contains(line, "finished")

(***************************************************************************)
(* LogStreamer.run and stream_cloud_init.  A step runs from one blocking    *)
(* call (sleep, readline, subprocess run or wait) to the next.              *)
(***************************************************************************)
RunStart ==
    /\ pc = "run"
    /\ Emit(<< <<MsgStarted, "info">>, <<MsgDeployment, "info">>, <<MsgMonitoring, "info">> >>)
    /\ pc' = "ci_wait"
    /\ waited' = 0
    /\ UNCHANGED << lines_read, cur_line, streamer_vars, tail_proc, follow_proc, det_vars,
                    api_vars, main_pc, ci_log_exists, disk_ok, lock_vars >>

\* while self.running and not CLOUD_INIT_LOG.exists() and waited < timeout
CiWaiting == running /\ ~ci_log_exists /\ waited < CLOUD_INIT_TIMEOUT

CiWaitSleep ==
    /\ pc = "ci_wait"
    /\ CiWaiting
    /\ waited' = waited + 1
    /\ UNCHANGED << lines_read, cur_line, streamer_vars, log_vars, pc, tail_proc,
                    follow_proc, det_vars, api_vars, main_pc, ci_log_exists, disk_ok, lock_vars >>

\* the missing log skips straight to the last phase
CiLogMissing_ToRuntime ==
    /\ pc = "ci_wait"
    /\ ~CiWaiting
    /\ ~ci_log_exists
    /\ Emit(<< <<MsgNoCloudInit, "warning">> >>)
    /\ cloud_init_complete' = TRUE
    /\ phase' = RUNTIME
    /\ pc' = "cs_start"
    /\ UNCHANGED << lines_read, cur_line, running, container_started, waited, tail_proc,
                    follow_proc, det_vars, api_vars, main_pc, ci_log_exists, disk_ok, lock_vars >>

CiLogMissing ==
    /\ pc = "ci_wait"
    /\ ~CiWaiting
    /\ ~ci_log_exists
    /\ Emit(<< <<MsgNoCloudInit, "warning">> >>)
    /\ cloud_init_complete' = TRUE
    /\ phase' = CONTAINER_STARTUP
    /\ pc' = "cs_start"
    /\ UNCHANGED << lines_read, cur_line, running, container_started, waited, tail_proc,
                    follow_proc, det_vars, api_vars, main_pc, ci_log_exists, disk_ok, lock_vars >>

CiTailStart ==
    /\ pc = "ci_wait"
    /\ ~CiWaiting
    /\ ci_log_exists
    /\ tail_proc' = "alive"
    /\ pc' = "ci_tail"
    /\ UNCHANGED << lines_read, cur_line, streamer_vars, log_vars, waited, follow_proc,
                    det_vars, api_vars, main_pc, ci_log_exists, disk_ok, lock_vars >>

\* subprocess.Popen raises
CiTailPopenFails ==
    /\ pc = "ci_wait"
    /\ ~CiWaiting
    /\ ci_log_exists
    /\ Emit(<< <<MsgTailErr, "error">> >>)
    /\ phase' = CONTAINER_STARTUP
    /\ pc' = "cs_start"
    /\ UNCHANGED << lines_read, cur_line, running, cloud_init_complete, container_started,
                    waited, tail_proc, follow_proc, det_vars, api_vars, main_pc,
                    ci_log_exists, disk_ok, lock_vars >>

\* the completion line logged with the category of the other lines
CloudInitEntries_NoSuccess(raw) ==
    LET line      == RStrip(raw)
        formatted == format_cloud_init_line(line)
    IN  IF line = "" THEN << >>
        ELSE (IF formatted # None THEN << <<formatted, "cloud-init">> >> ELSE << >>)
             \o (IF IsCompletionMarker(line)
                 THEN << <<MsgCloudInitDone, "cloud-init">> >> ELSE << >>)

\* the entries one line of the cloud-init log produces: lines 103-113
CloudInitEntries(raw) ==
    LET line      == RStrip(raw)
        formatted == format_cloud_init_line(line)
    IN  IF line = "" THEN << >>
        ELSE (IF formatted # None THEN << <<formatted, "cloud-init">> >> ELSE << >>)
             \o (IF IsCompletionMarker(line)
                 THEN << <<MsgCloudInitDone, "success">> >> ELSE << >>)

\* CloudInitEntries and the marker test, computed once for each line
CloudInitEntriesOf == [raw \in ProvLines \cup ClassifierLines |-> CloudInitEntries(raw)]
CompletesCloudInit ==
    [raw \in ProvLines \cup ClassifierLines |->
        RStrip(raw) # "" /\ IsCompletionMarker(RStrip(raw))]

\* readline returned a line while self.running
CiReadLine(raw) ==
    /\ pc = "ci_tail"
    /\ running
    /\ lines_read < MaxLines
    /\ lines_read' = lines_read + 1
    /\ cur_line' = raw
    /\ Emit(CloudInitEntriesOf[raw])
    /\ IF CompletesCloudInit[raw]
       THEN /\ cloud_init_complete' = TRUE
            /\ tail_proc' = "terminated"
            /\ pc' = "ci_waitproc"
       ELSE UNCHANGED << cloud_init_complete, tail_proc, pc >>
    /\ UNCHANGED << running, phase, container_started, waited, follow_proc, det_vars,
                    api_vars, main_pc, ci_log_exists, disk_ok, lock_vars >>

\* readline returned a line after stop(): the line is dropped
CiReadStopped(raw) ==
    /\ pc = "ci_tail"
    /\ ~running
    /\ cur_line' = raw
    /\ tail_proc' = "terminated"
    /\ pc' = "ci_waitproc"
    /\ UNCHANGED << lines_read, streamer_vars, log_vars, waited, follow_proc, det_vars,
                    api_vars, main_pc, ci_log_exists, disk_ok, lock_vars >>

\* readline returned '': the tail process closed its output
CiTailEOF ==
    /\ pc = "ci_tail"
    /\ tail_proc' = "exited"
    /\ pc' = "ci_waitproc"
    /\ UNCHANGED << lines_read, cur_line, streamer_vars, log_vars, waited, follow_proc,
                    det_vars, api_vars, main_pc, ci_log_exists, disk_ok, lock_vars >>

\* process.wait(timeout=5) returns
CiProcExited ==
    /\ pc = "ci_waitproc"
    /\ tail_proc' = "exited"
    /\ phase' = CONTAINER_STARTUP
    /\ pc' = "cs_start"
    /\ UNCHANGED << lines_read, cur_line, running, cloud_init_complete, container_started,
                    log_vars, waited, follow_proc, det_vars, api_vars, main_pc,
                    ci_log_exists, disk_ok, lock_vars >>

\* the except clause returns before the phase is set
CiProcWaitTimeout_Returns ==
    /\ pc = "ci_waitproc"
    /\ tail_proc # "exited"
    /\ Emit(<< <<MsgCloudInitErr, "error">> >>)
    /\ pc' = "cs_start"
    /\ UNCHANGED << lines_read, cur_line, streamer_vars, waited, tail_proc, follow_proc,
                    det_vars, api_vars, main_pc, ci_log_exists, disk_ok, lock_vars >>

\* process.wait(timeout=5) raises TimeoutExpired: the process is left as it is
CiProcWaitTimeout ==
    /\ pc = "ci_waitproc"
    /\ tail_proc # "exited"
    /\ Emit(<< <<MsgCloudInitErr, "error">> >>)
    /\ phase' = CONTAINER_STARTUP
    /\ pc' = "cs_start"
    /\ UNCHANGED << lines_read, cur_line, running, cloud_init_complete, container_started,
                    waited, tail_proc, follow_proc, det_vars, api_vars, main_pc,
                    ci_log_exists, disk_ok, lock_vars >>

(***************************************************************************)
(* LogStreamer.stream_container_startup and _wait_for_docker                *)
(***************************************************************************)
CsStart ==
    /\ pc = "cs_start"
    /\ Emit(<< <<MsgWaitContainer, "info">> >>)
    /\ waited' = 0
    /\ pc' = "cs_docker"
    /\ UNCHANGED << lines_read, cur_line, streamer_vars, tail_proc, follow_proc, det_vars,
                    api_vars, main_pc, ci_log_exists, disk_ok, lock_vars >>

\* while self.running and waited < max_wait
DockerWaiting == running /\ waited < DOCKER_MAX_WAIT

\* docker info returned 0
DockerReady ==
    /\ pc = "cs_docker"
    /\ DockerWaiting
    /\ waited' = 0
    /\ pc' = "cs_poll"
    /\ UNCHANGED << lines_read, cur_line, streamer_vars, log_vars, tail_proc, follow_proc,
                    det_vars, api_vars, main_pc, ci_log_exists, disk_ok, lock_vars >>

\* docker info failed, raised or timed out
DockerNotReady ==
    /\ pc = "cs_docker"
    /\ DockerWaiting
    /\ Emit(IF waited = 0 THEN << <<MsgWaitDocker, "info">> >> ELSE << >>)
    /\ waited' = waited + 2
    /\ UNCHANGED << lines_read, cur_line, streamer_vars, pc, tail_proc, follow_proc,
                    det_vars, api_vars, main_pc, ci_log_exists, disk_ok, lock_vars >>

\* _wait_for_docker returned False: stream_container_startup returns, and run()
\* ends with stream_runtime_logs, which does nothing
DockerUnavailable ==
    /\ pc = "cs_docker"
    /\ ~DockerWaiting
    /\ Emit(<< <<MsgNoDocker, "warning">> >>)
    /\ pc' = "done"
    /\ UNCHANGED << lines_read, cur_line, streamer_vars, waited, tail_proc, follow_proc,
                    det_vars, api_vars, main_pc, ci_log_exists, disk_ok, lock_vars >>

\* while self.running and waited < timeout
ContainerWaiting == running /\ waited < CONTAINER_TIMEOUT

\* docker ps names the container: lines 219-222, then 232-239
ContainerFound ==
    /\ pc = "cs_poll"
    /\ ContainerWaiting
    /\ container_started' = TRUE
    /\ Emit(<< <<MsgDetected, "success">>, <<MsgStreaming, "info">> >>)
    /\ phase' = RUNTIME
    /\ pc' = "rt_history"
    /\ UNCHANGED << lines_read, cur_line, running, cloud_init_complete, waited, tail_proc,
                    follow_proc, det_vars, api_vars, main_pc, ci_log_exists, disk_ok, lock_vars >>

\* docker ps does not name it, fails or raises
ContainerNotFound ==
    /\ pc = "cs_poll"
    /\ ContainerWaiting
    /\ Emit(IF waited = 0 THEN << <<MsgWaitCreation, "info">> >> ELSE << >>)
    /\ waited' = waited + 3
    /\ UNCHANGED << lines_read, cur_line, streamer_vars, pc, tail_proc, follow_proc,
                    det_vars, api_vars, main_pc, ci_log_exists, disk_ok, lock_vars >>

\* the timeout falls through to the last phase
ContainerTimedOut_ToRuntime ==
    /\ pc = "cs_poll"
    /\ ~ContainerWaiting
    /\ waited >= CONTAINER_TIMEOUT
    /\ Emit(<< <<MsgNoContainer, "warning">> >>)
    /\ phase' = RUNTIME
    /\ pc' = "done"
    /\ UNCHANGED << lines_read, cur_line, running, cloud_init_complete, container_started,
                    waited, tail_proc, follow_proc, det_vars, api_vars, main_pc,
                    ci_log_exists, disk_ok, lock_vars >>

\* the loop ended with waited >= timeout
ContainerTimedOut ==
    /\ pc = "cs_poll"
    /\ ~ContainerWaiting
    /\ waited >= CONTAINER_TIMEOUT
    /\ Emit(<< <<MsgNoContainer, "warning">> >>)
    /\ pc' = "done"
    /\ UNCHANGED << lines_read, cur_line, streamer_vars, waited, tail_proc, follow_proc,
                    det_vars, api_vars, main_pc, ci_log_exists, disk_ok, lock_vars >>

\* the loop ended because self.running is false, with waited < timeout
ContainerPollStopped ==
    /\ pc = "cs_poll"
    /\ ~ContainerWaiting
    /\ waited < CONTAINER_TIMEOUT
    /\ phase' = RUNTIME
    /\ Emit(<< <<MsgStreaming, "info">> >>)
    /\ pc' = "rt_history"
    /\ UNCHANGED << lines_read, cur_line, running, cloud_init_complete, container_started,
                    waited, tail_proc, follow_proc, det_vars, api_vars, main_pc,
                    ci_log_exists, disk_ok, lock_vars >>

(***************************************************************************)
(* LogStreamer.stream_container_logs                                        *)
(***************************************************************************)
\* the output of docker logs --tail: stdout lines, then stderr lines
Histories ==
    UNION { [1..n -> ContainerLines] : n \in 0..HISTORY_TAIL }

RECURSIVE ContainerEntries(_, _)
ContainerEntries(lines, i) ==
    IF i > Len(lines) THEN << >>
    ELSE (IF Strip(lines[i]) # ""
          THEN << <<format_container_log_line(lines[i]), "container">> >> ELSE << >>)
         \o ContainerEntries(lines, i + 1)

\* the entries of each history and of each followed line, computed once
HistoryEntriesOf == [hist \in Histories |-> ContainerEntries(hist, 1)]
FollowEntriesOf ==
    [raw \in ContainerLines \cup SignatureLines \cup LevelLines \cup LongLines |->
        IF RStrip(raw) # ""
        THEN << <<format_container_log_line(RStrip(raw)), "container">> >> ELSE << >>]

\* subprocess.run raises TimeoutExpired
RtHistoryTimeout ==
    /\ pc = "rt_history"
    /\ Emit(<< <<MsgLogsTimedOut, "warning">> >>)
    /\ pc' = "done"
    /\ UNCHANGED << lines_read, cur_line, streamer_vars, waited, tail_proc, follow_proc,
                    det_vars, api_vars, main_pc, ci_log_exists, disk_ok, lock_vars >>

\* the history is logged (none when the return code is not 0), Popen succeeds
RtFollowStart(hist) ==
    /\ pc = "rt_history"
    /\ lines_read + Len(hist) <= MaxLines
    /\ lines_read' = lines_read + Len(hist)
    /\ cur_line' = IF hist = << >> THEN cur_line ELSE hist[Len(hist)]
    /\ Emit(HistoryEntriesOf[hist])
    /\ follow_proc' = "alive"
    /\ pc' = "rt_follow"
    /\ UNCHANGED << streamer_vars, waited, tail_proc, det_vars, api_vars, main_pc,
                    ci_log_exists, disk_ok, lock_vars >>

\* the history is logged, then subprocess.Popen raises
RtPopenFails(hist) ==
    /\ pc = "rt_history"
    /\ lines_read + Len(hist) <= MaxLines
    /\ lines_read' = lines_read + Len(hist)
    /\ cur_line' = IF hist = << >> THEN cur_line ELSE hist[Len(hist)]
    /\ Emit(HistoryEntriesOf[hist] \o << <<MsgLogsErr, "error">> >>)
    /\ pc' = "done"
    /\ UNCHANGED << streamer_vars, waited, tail_proc, follow_proc, det_vars, api_vars,
                    main_pc, ci_log_exists, disk_ok, lock_vars >>

\* readline returned a line while self.running
RtReadLine(raw) ==
    /\ pc = "rt_follow"
    /\ running
    /\ lines_read < MaxLines
    /\ lines_read' = lines_read + 1
    /\ cur_line' = raw
    /\ Emit(FollowEntriesOf[raw])
    /\ UNCHANGED << streamer_vars, pc, waited, tail_proc, follow_proc, det_vars, api_vars,
                    main_pc, ci_log_exists, disk_ok, lock_vars >>

\* readline returned a line after stop(): the line is dropped
RtReadStopped(raw) ==
    /\ pc = "rt_follow"
    /\ ~running
    /\ cur_line' = raw
    /\ follow_proc' = "terminated"
    /\ pc' = "rt_waitproc"
    /\ UNCHANGED << lines_read, streamer_vars, log_vars, waited, tail_proc, det_vars,
                    api_vars, main_pc, ci_log_exists, disk_ok, lock_vars >>

\* readline returned '': docker logs -f ended
RtFollowEOF ==
    /\ pc = "rt_follow"
    /\ follow_proc' = "exited"
    /\ pc' = "rt_waitproc"
    /\ UNCHANGED << lines_read, cur_line, streamer_vars, log_vars, waited, tail_proc,
                    det_vars, api_vars, main_pc, ci_log_exists, disk_ok, lock_vars >>

\* a streamer that fetches the history and follows again once the stream has ended
RtProcExited_Retries ==
    /\ pc = "rt_waitproc"
    /\ follow_proc' = "exited"
    /\ pc' = "rt_history"
    /\ UNCHANGED << lines_read, cur_line, streamer_vars, log_vars, waited, tail_proc,
                    det_vars, api_vars, main_pc, ci_log_exists, disk_ok, lock_vars >>

\* process.wait(timeout=5) returns: stream_container_logs returns, and so does run
RtProcExited ==
    /\ pc = "rt_waitproc"
    /\ follow_proc' = "exited"
    /\ pc' = "done"
    /\ UNCHANGED << lines_read, cur_line, streamer_vars, log_vars, waited, tail_proc,
                    det_vars, api_vars, main_pc, ci_log_exists, disk_ok, lock_vars >>

\* process.wait(timeout=5) raises TimeoutExpired
RtProcWaitTimeout ==
    /\ pc = "rt_waitproc"
    /\ follow_proc # "exited"
    /\ Emit(<< <<MsgLogsTimedOut, "warning">> >>)
    /\ pc' = "done"
    /\ UNCHANGED << lines_read, cur_line, streamer_vars, waited, tail_proc, follow_proc,
                    det_vars, api_vars, main_pc, ci_log_exists, disk_ok, lock_vars >>

StreamerRunningNext ==
    \/ RunStart
    \/ CiWaitSleep \/ CiLogMissing \/ CiTailStart \/ CiTailPopenFails
    \/ \E raw \in ProvLines : CiReadLine(raw)
    \/ CiTailEOF \/ CiProcExited \/ CiProcWaitTimeout
    \/ CsStart \/ DockerReady \/ DockerNotReady \/ DockerUnavailable
    \/ ContainerFound \/ ContainerNotFound \/ ContainerTimedOut
    \/ RtHistoryTimeout
    \/ \E hist \in Histories : RtFollowStart(hist)
    \/ \E hist \in Histories : RtPopenFails(hist)
    \/ \E raw \in ContainerLines : RtReadLine(raw)
    \/ RtFollowEOF \/ RtProcExited

\* the steps that see running = False, and the wait for a process that was left
\* with output unread
StreamerStoppedNext ==
    \/ \E raw \in ProvLines : CiReadStopped(raw)
    \/ ContainerPollStopped
    \/ \E raw \in ContainerLines : RtReadStopped(raw)
    \/ RtProcWaitTimeout

StreamerNext == StreamerRunningNext \/ StreamerStoppedNext

(***************************************************************************)
(* LogStreamer.get_recent_logs                                              *)
(***************************************************************************)
\* a slice taken from the wrong end: logs_list[:lines]
get_recent_logs_FirstN(lines) ==
    SubSeq(log_buffer, 1, IF lines < Len(log_buffer) THEN lines ELSE Len(log_buffer))

get_recent_logs(lines) == LastSlice(log_buffer, lines)

(***************************************************************************)
(* IssueDetector.check_log_line: the five checks, in the order of the code  *)
(***************************************************************************)
Signatures ==
    << [ type |-> "oom", severity |-> "critical",
         message |-> "Out of memory detected",
         recommendation |-> "Increase instance memory or optimize application" ],
       [ type |-> "crash", severity |-> "critical",
         message |-> "Application crash detected",
         recommendation |-> "Check application logs for crash cause" ],
       [ type |-> "port_conflict", severity |-> "error",
         message |-> "Port conflict detected",
         recommendation |-> "Check if another service is using the same port" ],
       [ type |-> "permission", severity |-> "error",
         message |-> "Permission error detected",
         recommendation |-> "Check file/directory permissions" ],
       [ type |-> "connection", severity |-> "warning",
         message |-> "Connection error detected",
         recommendation |-> "Check if dependent services are running" ] >>

\* the condition of the k-th check on a message
SigMatches(k, line) ==
    LET line_lower == Lower(line)
    IN  CASE k = 1 -> Contains(line_lower, "out of memory") \/ Contains(line_lower, "oom")
                      \/ Contains(line, "137")
          [] k = 2 -> Contains(line_lower, "crash") \/ Contains(line_lower, "segfault")
                      \/ Contains(line_lower, "core dump")
          [] k = 3 -> Contains(line_lower, "address already in use")
                      \/ Contains(line_lower, "bind: address already in use")
          [] k = 4 -> Contains(line_lower, "permission denied")
          [] k = 5 -> Contains(line_lower, "connection refused")
                      \/ Contains(line_lower, "cannot connect")

\* an issue dict that is born resolved
Candidate_Resolved(k, line) ==
    [ type |-> Signatures[k].type, severity |-> Signatures[k].severity,
      message |-> Signatures[k].message, recommendation |-> Signatures[k].recommendation,
      line |-> Truncate(line, EVIDENCE_MAX),
      timestamp |-> Len(published) + 1, resolved |-> TRUE ]

\* an issue dict that keeps the whole line as evidence
Candidate_FullLine(k, line) ==
    [ type |-> Signatures[k].type, severity |-> Signatures[k].severity,
      message |-> Signatures[k].message, recommendation |-> Signatures[k].recommendation,
      line |-> line,
      timestamp |-> Len(published) + 1, resolved |-> FALSE ]

\* the issue dict the k-th check passes to log_issue, completed by log_issue
Candidate(k, line) ==
    [ type |-> Signatures[k].type, severity |-> Signatures[k].severity,
      message |-> Signatures[k].message, recommendation |-> Signatures[k].recommendation,
      line |-> Truncate(line, EVIDENCE_MAX),
      timestamp |-> Len(published) + 1, resolved |-> FALSE ]

(***************************************************************************)
(* IssueDetector.log_issue                                                  *)
(***************************************************************************)
\* a debounce keyed on the issue's message instead of its evidence line
IsDuplicate_WrongKey(issue) ==
    LET recent_issues == LastSlice(issues, DEDUP_WINDOW)
    IN  \E r \in 1..Len(recent_issues) :
            /\ recent_issues[r].type = issue.type
            /\ recent_issues[r].line = issue.message

\* the debounce compares the type alone
IsDuplicate_TypeOnly(issue) ==
    LET recent_issues == LastSlice(issues, DEDUP_WINDOW)
    IN  \E r \in 1..Len(recent_issues) : recent_issues[r].type = issue.type

\* the debounce: a recent issue with the same type and line
IsDuplicate(issue) ==
    LET recent_issues == LastSlice(issues, DEDUP_WINDOW)
    IN  \E r \in 1..Len(recent_issues) :
            /\ recent_issues[r].type = issue.type
            /\ recent_issues[r].line = issue.line

\* the entries that echo a published issue
EchoEntries(issue) ==
    LET severity_icon == IF issue.severity = "critical" THEN IconSiren ELSE IconWarn
    IN  << << severity_icon \o " " \o Upper(issue.severity) \o ": " \o issue.message, "issue" >> >>
        \o (IF issue.recommendation # ""
            THEN << << "   " \o IconArrow \o " " \o issue.recommendation, "issue" >> >>
            ELSE << >>)

(***************************************************************************)
(* IssueDetector.check_logs_for_issues.  A step is one scan start, or one   *)
(* log_issue call: the checks that do not match change nothing and are      *)
(* passed over.                                                             *)
(***************************************************************************)
\* the messages of a sequence of <<message, category>> pairs
MessagesOf(entries) == { entries[i][1] : i \in 1..Len(entries) }

\* every message log_line is called with
StreamerMessages ==
    { MsgStarted, MsgDeployment, MsgMonitoring, MsgNoCloudInit, MsgCloudInitDone,
      MsgCloudInitErr, MsgTailErr, MsgWaitContainer, MsgNoDocker, MsgWaitDocker,
      MsgWaitCreation, MsgDetected, MsgNoContainer, MsgStreaming, MsgLogsTimedOut,
      MsgLogsErr, MsgListening, MsgShutdown }
SourceMessages ==
    UNION ( { MessagesOf(CloudInitEntriesOf[raw]) : raw \in ProvLines }
            \cup { MessagesOf(FollowEntriesOf[raw]) :
                        raw \in ContainerLines \cup SignatureLines \cup LongLines }
            \cup { MessagesOf(HistoryEntriesOf[hist]) : hist \in Histories } )
EchoMessages == UNION { MessagesOf(EchoEntries(Signatures[k])) : k \in 1..5 }
AllMessages == StreamerMessages \cup SourceMessages \cup EchoMessages

\* the checks that match each message, computed once
MatchingChecks == [m \in AllMessages |-> { k \in 1..5 : SigMatches(k, m) }]
EchoEntriesOf  == [k \in 1..5 |-> EchoEntries(Signatures[k])]

\* the (entry, check) pairs of the snapshot still to come whose check matches
PendingPairs ==
    { p \in (1..Len(det_logs)) \X (1..5) :
        /\ p[1] > det_i \/ (p[1] = det_i /\ p[2] >= det_k)
        /\ p[2] \in MatchingChecks[det_logs[p[1]].message] }

NextPair ==
    CHOOSE p \in PendingPairs :
        \A q \in PendingPairs : p[1] < q[1] \/ (p[1] = q[1] /\ p[2] <= q[2])

DetScan ==
    /\ det_pc = "scan"
    /\ det_running
    /\ det_logs' = get_recent_logs(SCAN_WINDOW)
    /\ det_i' = 1
    /\ det_k' = 1
    /\ det_pc' = "check"
    /\ UNCHANGED << streamer_vars, log_vars, thread_vars, issues, det_running, published,
                    api_vars, main_pc, ci_log_exists, disk_ok, lock_vars >>

\* while self.running ends the loop
DetStopped ==
    /\ det_pc = "scan"
    /\ ~det_running
    /\ det_pc' = "done"
    /\ UNCHANGED << streamer_vars, log_vars, thread_vars, issues, det_running, det_logs,
                    det_i, det_k, published, api_vars, main_pc, ci_log_exists, disk_ok, lock_vars >>

\* checks chained with elif: after a match the rest of the entry's checks is skipped
Advance_FirstMatchOnly(p) ==
    /\ det_i' = p[1] + 1
    /\ det_k' = 1

\* the position after pair p: the next check of the entry, or the next entry
Advance(p) ==
    /\ det_i' = IF p[2] = 5 THEN p[1] + 1 ELSE p[1]
    /\ det_k' = IF p[2] = 5 THEN 1 ELSE p[2] + 1

\* log_issue appends the issue and echoes it
DetPublish ==
    /\ det_pc = "check"
    /\ PendingPairs # {}
    /\ LET p     == NextPair
           issue == Candidate(p[2], det_logs[p[1]].message)
       IN  /\ ~IsDuplicate(issue)
           /\ issues' = RingAppend(issues, issue, MAX_ISSUES)
           /\ published' = Append(published, issue)
           /\ Emit(EchoEntriesOf[p[2]])
           /\ Advance(p)
    /\ UNCHANGED << streamer_vars, thread_vars, det_running, det_pc, det_logs, api_vars,
                    main_pc, ci_log_exists, disk_ok, lock_vars >>

\* log_issue returns at "Skip duplicate"
DetDuplicate ==
    /\ det_pc = "check"
    /\ PendingPairs # {}
    /\ LET p     == NextPair
           issue == Candidate(p[2], det_logs[p[1]].message)
       IN  /\ IsDuplicate(issue)
           /\ Advance(p)
    /\ UNCHANGED << streamer_vars, log_vars, thread_vars, issues, det_running, det_pc,
                    det_logs, published, api_vars, main_pc, ci_log_exists, disk_ok, lock_vars >>

\* the for loop ends; time.sleep(5)
DetScanDone ==
    /\ det_pc = "check"
    /\ PendingPairs = {}
    /\ det_pc' = "scan"
    /\ det_logs' = << >>
    /\ det_i' = 1
    /\ det_k' = 1
    /\ UNCHANGED << streamer_vars, log_vars, thread_vars, issues, det_running, published,
                    api_vars, main_pc, ci_log_exists, disk_ok, lock_vars >>

\* the text printed for an exception e of the scan; e is the error of a print to a
\* closed stdout
MsgScanErr == "Error checking logs: [Errno 32] Broken pipe"

\* an exception of the scan that ends the thread
DetScanRaises_Dies ==
    /\ det_pc = "check"
    /\ stderr' = stderr \cup { MsgScanErr }
    /\ det_pc' = "done"
    /\ det_logs' = << >>
    /\ det_i' = 1
    /\ det_k' = 1
    /\ UNCHANGED << streamer_vars, log_buffer, stdout, log_file, log_seq, thread_vars,
                    issues, det_running, published, api_vars, main_pc, ci_log_exists,
                    disk_ok, lock_vars >>

\* an exception while the snapshot is examined: the rest of the snapshot is given
\* up, the except clause prints on sys.stderr and sleeps, and the loop goes on
DetScanRaises ==
    /\ det_pc = "check"
    /\ stderr' = stderr \cup { MsgScanErr }
    /\ det_pc' = "scan"
    /\ det_logs' = << >>
    /\ det_i' = 1
    /\ det_k' = 1
    /\ UNCHANGED << streamer_vars, log_buffer, stdout, log_file, log_seq, thread_vars,
                    issues, det_running, published, api_vars, main_pc, ci_log_exists,
                    disk_ok, lock_vars >>

\* log_issue has appended the issue and the print of its first echo raises: the
\* entry is in the LogBuffer, nothing is printed or written to the file, the second
\* echo is not made, and the exception reaches the except clause of the loop
DetEchoRaises ==
    /\ det_pc = "check"
    /\ PendingPairs # {}
    /\ log_seq < MaxAppends
    /\ LET p     == NextPair
           issue == Candidate(p[2], det_logs[p[1]].message)
           echo  == EchoEntriesOf[p[2]][1]
           L     == log_line(LogState, echo[1], echo[2])
       IN  /\ ~IsDuplicate(issue)
           /\ issues' = RingAppend(issues, issue, MAX_ISSUES)
           /\ published' = Append(published, issue)
           /\ log_buffer' = L.buf
           /\ log_seq' = L.seq
    /\ stderr' = stderr \cup { MsgScanErr }
    /\ det_pc' = "scan"
    /\ det_logs' = << >>
    /\ det_i' = 1
    /\ det_k' = 1
    /\ UNCHANGED << streamer_vars, stdout, log_file, thread_vars, det_running, api_vars,
                    main_pc, ci_log_exists, disk_ok, lock_vars >>

DetectorRunningNext == DetScan \/ DetPublish \/ DetDuplicate \/ DetScanDone

DetectorNext == DetectorRunningNext \/ DetStopped

(***************************************************************************)
(* int() of a query value: an optional sign and decimal digits              *)
(***************************************************************************)
Digits(s) == IF Len(s) >= 1 /\ CharAt(s, 1) \in {"-", "+"} THEN SubSeq(s, 2, Len(s)) ELSE s

\* int(s) does not raise ValueError
IsInt(s) == Digits(s) # "" /\ \A i \in 1..Len(Digits(s)) : IsDigit(CharAt(Digits(s), i))

DigitValue(c) == (CHOOSE k \in 1..10 : CharAt("0123456789", k) = c) - 1

RECURSIVE NatValue(_, _)
NatValue(s, n) ==
    IF n = 0 THEN 0 ELSE 10 * NatValue(s, n - 1) + DigitValue(CharAt(s, n))

ParseInt(s) ==
    IF CharAt(s, 1) = "-" THEN 0 - NatValue(Digits(s), Len(Digits(s)))
    ELSE NatValue(Digits(s), Len(Digits(s)))

(***************************************************************************)
(* BuildMonitorHandler: HTTPServer serves one request at a time, so a       *)
(* request is handled only while no /stream handler is running.             *)
(***************************************************************************)
NoResponse ==
    [ path |-> "", query |-> NoParam, status |-> 0, logs |-> << >>, count |-> 0 ]

ClosedStream ==
    [ state |-> "closed", last_count |-> 0, sent |-> << >>, opened_at |-> 0, polls |-> 0 ]

\* serve_forever is between two requests and no connection is waiting
ServerIdle == main_pc = "serving" /\ stream.state = "closed" /\ backlog = {}

\* do_GET on /logs with an integer lines value, or none: handle_logs
HandleLogs(query) ==
    /\ ServerIdle
    /\ query = NoParam \/ IsInt(query)
    /\ LET lines == IF query = NoParam THEN DEFAULT_LINES ELSE ParseInt(query)
           logs  == get_recent_logs(lines)
       IN  http_resp' = [ path |-> "/logs", query |-> query, status |-> 200,
                          logs |-> logs, count |-> Len(logs) ]
    /\ UNCHANGED << streamer_vars, log_vars, thread_vars, det_vars, stream,
                    client_connected, backlog, main_pc, ci_log_exists, disk_ok, lock_vars >>

\* str(e) of the ValueError int() raises
ValueErrorMessage(query) == "invalid literal for int() with base 10: '" \o query \o "'"

\* the exception is not caught: it ends serve_forever
HandleLogsBadQuery_Crash(query) ==
    /\ ServerIdle
    /\ query # NoParam /\ ~IsInt(query)
    /\ main_pc' = "stopped"
    /\ http_resp' = [ path |-> "/logs", query |-> query, status |-> 500,
                      logs |-> << >>, count |-> 0, message |-> ValueErrorMessage(query) ]
    /\ UNCHANGED << streamer_vars, log_vars, thread_vars, det_vars, stream,
                    client_connected, backlog, ci_log_exists, disk_ok, lock_vars >>

\* do_GET on /logs, int() raises: the except clause prints the error on sys.stderr
\* and answers 500
HandleLogsBadQuery(query) ==
    /\ ServerIdle
    /\ query # NoParam /\ ~IsInt(query)
    /\ stderr' = stderr \cup { "Error handling request: " \o ValueErrorMessage(query) }
    /\ http_resp' = [ path |-> "/logs", query |-> query, status |-> 500,
                      logs |-> << >>, count |-> 0, message |-> ValueErrorMessage(query) ]
    /\ UNCHANGED << streamer_vars, log_buffer, stdout, log_file, log_seq, thread_vars,
                    det_vars, stream, client_connected, backlog, main_pc, ci_log_exists,
                    disk_ok, lock_vars >>

\* handle_stream up to the loop: the headers are sent, last_count = 0
StreamOpen ==
    /\ ServerIdle
    /\ client_connected' = TRUE
    /\ stream' = [ state |-> "open", last_count |-> 0, sent |-> << >>,
                   opened_at |-> log_seq, polls |-> 0 ]
    /\ http_resp' = [ path |-> "/stream", query |-> NoParam, status |-> 200,
                      logs |-> << >>, count |-> 0 ]
    /\ UNCHANGED << streamer_vars, log_vars, thread_vars, det_vars, backlog, main_pc,
                    ci_log_exists, disk_ok, lock_vars >>

\* the timestamps of entries, in order
Stamps(entries) == [i \in 1..Len(entries) |-> entries[i].timestamp]

\* the entries one iteration of the loop writes
StreamNewLogs == SliceFrom(get_recent_logs(DEFAULT_LINES), stream.last_count)

\* an iteration that forgets last_count = len(logs)
StreamPoll_NoCursorUpdate ==
    /\ stream.state = "open"
    /\ client_connected \/ StreamNewLogs = << >>
    /\ stream' = [ stream EXCEPT !.sent = @ \o Stamps(StreamNewLogs),
                                 !.polls = IF @ < 2 /\ StreamNewLogs # << >> THEN @ + 1 ELSE @ ]
    /\ UNCHANGED << streamer_vars, log_vars, thread_vars, det_vars, http_resp,
                    client_connected, backlog, main_pc, ci_log_exists, disk_ok, lock_vars >>

\* one iteration of the while loop, every write succeeding; then time.sleep(0.5)
StreamPoll ==
    /\ stream.state = "open"
    /\ client_connected \/ StreamNewLogs = << >>
    /\ stream' = [ stream EXCEPT !.sent = @ \o Stamps(StreamNewLogs),
                                 !.last_count = Len(get_recent_logs(DEFAULT_LINES)),
                                 !.polls = IF @ < 2 /\ StreamNewLogs # << >> THEN @ + 1 ELSE @ ]
    /\ UNCHANGED << streamer_vars, log_vars, thread_vars, det_vars, http_resp,
                    client_connected, backlog, main_pc, ci_log_exists, disk_ok, lock_vars >>

\* a write raises BrokenPipeError or ConnectionResetError: the handler returns
StreamBrokenPipe ==
    /\ stream.state = "open"
    /\ ~client_connected
    /\ StreamNewLogs # << >>
    /\ stream' = ClosedStream
    /\ UNCHANGED << streamer_vars, log_vars, thread_vars, det_vars, http_resp,
                    client_connected, backlog, main_pc, ci_log_exists, disk_ok, lock_vars >>

\* the client of the open stream goes away
ClientDisconnect ==
    /\ stream.state = "open"
    /\ client_connected
    /\ client_connected' = FALSE
    /\ UNCHANGED << streamer_vars, log_vars, thread_vars, det_vars, http_resp, stream,
                    backlog, main_pc, ci_log_exists, disk_ok, lock_vars >>

(***************************************************************************)
(* The handlers that answer from the state: /health, /status, /issues, and  *)
(* the 404 of every other path                                              *)
(***************************************************************************)
Reverse(seq) == [i \in 1..Len(seq) |-> seq[Len(seq) + 1 - i]]

\* IssueDetector.get_issues without reversed()
get_issues_OldestFirst(unresolved_only) ==
    IF unresolved_only THEN SelectSeq(issues, LAMBDA i : ~i.resolved) ELSE issues

\* IssueDetector.get_issues
get_issues(unresolved_only) ==
    LET issues_list == IF unresolved_only THEN SelectSeq(issues, LAMBDA i : ~i.resolved)
                       ELSE issues
    IN  Reverse(issues_list)

\* LogStreamer.get_status
get_status ==
    [ phase |-> phase, cloud_init_complete |-> cloud_init_complete,
      container_started |-> container_started, container_name |-> container_name,
      deployment_id |-> "unknown", app_name |-> "unknown", log_count |-> Len(log_buffer) ]

\* handle_health; the time of the answer is read on the clock that numbers the appends
HealthResponse ==
    [ path |-> "/health", query |-> NoParam, status |-> 200,
      body |-> [ status |-> "healthy", timestamp |-> log_seq, service |-> "build-monitor" ] ]

\* handle_status
StatusResponse ==
    [ path |-> "/status", query |-> NoParam, status |-> 200,
      body |-> get_status, issues |-> get_issues(TRUE) ]

\* handle_issues
IssuesResponse ==
    LET found == get_issues(FALSE)
    IN  [ path |-> "/issues", query |-> NoParam, status |-> 200,
          issues |-> found, count |-> Len(found) ]

\* paths do_GET has no branch for
UnknownPaths == { "/", "/metrics" }

HandleHealth ==
    /\ ServerIdle
    /\ http_resp' = HealthResponse
    /\ UNCHANGED << streamer_vars, log_vars, thread_vars, det_vars, stream,
                    client_connected, backlog, main_pc, ci_log_exists, disk_ok, lock_vars >>

HandleStatus ==
    /\ ServerIdle
    /\ http_resp' = StatusResponse
    /\ UNCHANGED << streamer_vars, log_vars, thread_vars, det_vars, stream,
                    client_connected, backlog, main_pc, ci_log_exists, disk_ok, lock_vars >>

\* the handler hands the issues out and empties the buffer
HandleIssues_Drain ==
    /\ ServerIdle
    /\ http_resp' = IssuesResponse
    /\ issues' = << >>
    /\ UNCHANGED << streamer_vars, log_vars, thread_vars, det_running, det_pc, det_logs,
                    det_i, det_k, published, stream, client_connected, backlog, main_pc,
                    ci_log_exists, disk_ok, lock_vars >>

HandleIssues ==
    /\ ServerIdle
    /\ http_resp' = IssuesResponse
    /\ UNCHANGED << streamer_vars, log_vars, thread_vars, det_vars, stream,
                    client_connected, backlog, main_pc, ci_log_exists, disk_ok, lock_vars >>

\* the else branch of do_GET: send_error(404, "Not found")
HandleNotFound(path) ==
    /\ ServerIdle
    /\ http_resp' = [ path |-> path, query |-> NoParam, status |-> 404,
                      message |-> "Not found" ]
    /\ UNCHANGED << streamer_vars, log_vars, thread_vars, det_vars, stream,
                    client_connected, backlog, main_pc, ci_log_exists, disk_ok, lock_vars >>

(***************************************************************************)
(* HTTPServer is a plain socketserver.TCPServer: serve_forever handles one  *)
(* request to its end before it accepts the next connection, so a request  *)
(* made while handle_stream is running waits in the listening queue.        *)
(***************************************************************************)
\* the requests a monitoring client makes while another client streams
QueuedPaths == { "/health", "/status" }

\* a client connects and sends its request while handle_stream is running
RequestQueued(path) ==
    /\ main_pc = "serving"
    /\ stream.state = "open"
    /\ path \notin backlog
    /\ backlog' = backlog \cup {path}
    /\ UNCHANGED << streamer_vars, log_vars, thread_vars, det_vars, http_resp, stream,
                    client_connected, main_pc, ci_log_exists, disk_ok, lock_vars >>

\* serve_forever accepts a waiting connection and handles its request; the clients
\* connected in either order
ServeQueued(path) ==
    /\ main_pc = "serving"
    /\ stream.state = "closed"
    /\ path \in backlog
    /\ http_resp' = IF path = "/health" THEN HealthResponse ELSE StatusResponse
    /\ backlog' = backlog \ {path}
    /\ UNCHANGED << streamer_vars, log_vars, thread_vars, det_vars, stream,
                    client_connected, main_pc, ci_log_exists, disk_ok, lock_vars >>

StateNext ==
    \/ HandleHealth \/ HandleStatus \/ HandleIssues
    \/ \E path \in UnknownPaths : HandleNotFound(path)

QueueNext ==
    \/ \E path \in QueuedPaths : RequestQueued(path)
    \/ \E path \in QueuedPaths : ServeQueued(path)

LogsNext ==
    \/ \E query \in LinesParams : HandleLogs(query)
    \/ \E query \in LinesParams : HandleLogsBadQuery(query)

StreamNext == StreamOpen \/ StreamPoll \/ StreamBrokenPipe \/ ClientDisconnect

ApiNext == LogsNext \/ StreamNext \/ StateNext \/ QueueNext

(***************************************************************************)
(* main                                                                     *)
(***************************************************************************)
\* the threads are started, the server is created, then this line is logged
MainListen ==
    /\ main_pc = "starting"
    /\ Emit(<< <<MsgListening, "info">> >>)
    /\ main_pc' = "serving"
    /\ UNCHANGED << streamer_vars, thread_vars, det_vars, api_vars, ci_log_exists,
                    disk_ok, lock_vars >>

\* KeyboardInterrupt leaves serve_forever, and any handler it was running
MainShutdown ==
    /\ main_pc = "serving"
    /\ Emit(<< <<MsgShutdown, "info">> >>)
    /\ running' = FALSE
    /\ det_running' = FALSE
    /\ stream' = ClosedStream
    /\ main_pc' = "stopped"
    /\ UNCHANGED << phase, cloud_init_complete, container_started, thread_vars, issues,
                    det_pc, det_logs, det_i, det_k, published, http_resp, client_connected,
                    backlog, ci_log_exists, disk_ok, lock_vars >>

MainNext == MainListen \/ MainShutdown

(***************************************************************************)
(* Environment                                                              *)
(***************************************************************************)
\* cloud-init creates /var/log/cloud-init-output.log
CloudInitLogCreated ==
    /\ ~ci_log_exists
    /\ ci_log_exists' = TRUE
    /\ UNCHANGED << streamer_vars, log_vars, thread_vars, det_vars, api_vars, main_pc,
                    disk_ok, lock_vars >>

\* the log directory becomes unwritable (disk full, permissions); the daemon never
\* reads the file, so a recovery would show it nothing new
DiskFails ==
    /\ disk_ok
    /\ disk_ok' = FALSE
    /\ UNCHANGED << streamer_vars, log_vars, thread_vars, det_vars, api_vars, main_pc,
                    ci_log_exists, lock_vars >>

(***************************************************************************)
(* The buffer operations step by step: every acquire and every release of  *)
(* LogStreamer.lock and of IssueDetector.lock is a step of its own, and so  *)
(* is what a thread does in between.  lk_pc[t] is the position of thread t: *)
(* ll_* in log_line, gr_* in get_recent_logs, li_* in log_issue, gi_* in    *)
(* get_issues, gs_read in get_status, send in send_json_response.           *)
(***************************************************************************)
\* the container line followed here: it carries a signature, and the echo of its
\* issue carries none
LockLines == { "Error: connect: connection refused" }

\* the streamer thread read a line of the container log and calls log_line
StreamerLogLineCall(raw) ==
    /\ lk_pc["streamer"] = "idle"
    /\ lines_read < MaxLines
    /\ FollowEntriesOf[raw] # << >>
    /\ lines_read' = lines_read + 1
    /\ cur_line' = raw
    /\ lk_todo' = [lk_todo EXCEPT !["streamer"] = FollowEntriesOf[raw]]
    /\ lk_pc' = [lk_pc EXCEPT !["streamer"] = "ll_acquire"]
    /\ UNCHANGED << streamer_vars, log_vars, pc, waited, tail_proc, follow_proc, det_vars,
                    api_vars, main_pc, ci_log_exists, disk_ok, log_lock, issue_lock,
                    lk_result >>

\* main calls log_line before serve_forever
MainLogLineCall ==
    /\ lk_pc["main"] = "idle"
    /\ main_pc = "starting"
    /\ lk_todo' = [lk_todo EXCEPT !["main"] = << <<MsgListening, "info">> >>]
    /\ lk_pc' = [lk_pc EXCEPT !["main"] = "ll_acquire"]
    /\ UNCHANGED << streamer_vars, log_vars, thread_vars, det_vars, api_vars, main_pc,
                    ci_log_exists, disk_ok, log_lock, issue_lock, lk_result >>

\* log_line: with self.lock
LogLineLock(t) ==
    /\ lk_pc[t] = "ll_acquire"
    /\ log_lock = "free"
    /\ log_lock' = t
    /\ lk_pc' = [lk_pc EXCEPT ![t] = "ll_append"]
    /\ UNCHANGED << streamer_vars, log_vars, thread_vars, det_vars, api_vars, main_pc,
                    ci_log_exists, disk_ok, issue_lock, lk_todo, lk_result >>

\* log_line: self.log_buffer.append
LogLineAppend(t) ==
    /\ lk_pc[t] = "ll_append"
    /\ log_seq < MaxAppends
    /\ LET L == log_line(LogState, lk_todo[t][1][1], lk_todo[t][1][2])
       IN  log_buffer' = L.buf /\ log_seq' = L.seq
    /\ lk_pc' = [lk_pc EXCEPT ![t] = "ll_release"]
    /\ UNCHANGED << streamer_vars, stdout, log_file, stderr, thread_vars, det_vars, api_vars,
                    main_pc, ci_log_exists, disk_ok, log_lock, issue_lock, lk_todo,
                    lk_result >>

\* log_line: the with block ends
LogLineUnlock(t) ==
    /\ lk_pc[t] = "ll_release"
    /\ log_lock' = "free"
    /\ lk_pc' = [lk_pc EXCEPT ![t] = "ll_output"]
    /\ UNCHANGED << streamer_vars, log_vars, thread_vars, det_vars, api_vars, main_pc,
                    ci_log_exists, disk_ok, issue_lock, lk_todo, lk_result >>

\* log_line: print and log_to_file, then the caller's next log_line call or its
\* return; main goes on to serve_forever, log_issue returns to the scan
LogLineOutput(t) ==
    /\ lk_pc[t] = "ll_output"
    /\ LET L == log_line(LogState, lk_todo[t][1][1], lk_todo[t][1][2])
       IN  stdout' = L.out /\ log_file' = L.file
    /\ lk_todo' = [lk_todo EXCEPT ![t] = Tail(@)]
    /\ lk_pc' = [lk_pc EXCEPT ![t] = IF Tail(lk_todo[t]) # << >> THEN "ll_acquire"
                                     ELSE IF t = "detector" THEN "scan" ELSE "idle"]
    /\ main_pc' = IF t = "main" THEN "serving" ELSE main_pc
    /\ UNCHANGED << streamer_vars, log_buffer, log_seq, stderr, thread_vars, det_vars, api_vars,
                    ci_log_exists, disk_ok, log_lock, issue_lock, lk_result >>

\* check_logs_for_issues calls get_recent_logs(50)
DetScanCall ==
    /\ lk_pc["detector"] = "idle"
    /\ det_running
    /\ lk_pc' = [lk_pc EXCEPT !["detector"] = "gr_acquire"]
    /\ UNCHANGED << streamer_vars, log_vars, thread_vars, det_vars, api_vars, main_pc,
                    ci_log_exists, disk_ok, log_lock, issue_lock, lk_todo, lk_result >>

\* do_GET on /logs?lines=1: handle_logs calls get_recent_logs
HandleLogsCall ==
    /\ lk_pc["main"] = "idle"
    /\ ServerIdle
    /\ lk_pc' = [lk_pc EXCEPT !["main"] = "gr_acquire"]
    /\ UNCHANGED << streamer_vars, log_vars, thread_vars, det_vars, api_vars, main_pc,
                    ci_log_exists, disk_ok, log_lock, issue_lock, lk_todo, lk_result >>

\* get_recent_logs: with self.lock
SnapshotLock(t) ==
    /\ lk_pc[t] = "gr_acquire"
    /\ log_lock = "free"
    /\ log_lock' = t
    /\ lk_pc' = [lk_pc EXCEPT ![t] = "gr_copy"]
    /\ UNCHANGED << streamer_vars, log_vars, thread_vars, det_vars, api_vars, main_pc,
                    ci_log_exists, disk_ok, issue_lock, lk_todo, lk_result >>

\* get_recent_logs: logs_list = list(self.log_buffer), of which the detector gets
\* the last 50 and the handler the last one
SnapshotCopy(t) ==
    /\ lk_pc[t] = "gr_copy"
    /\ IF t = "detector"
       THEN /\ det_logs' = get_recent_logs(SCAN_WINDOW)
            /\ det_i' = 1
            /\ det_k' = 1
            /\ UNCHANGED lk_result
       ELSE /\ lk_result' = [ path |-> "/logs", query |-> "1", status |-> 200,
                              logs |-> get_recent_logs(ParseInt("1")),
                              count |-> Len(get_recent_logs(ParseInt("1"))) ]
            /\ UNCHANGED << det_logs, det_i, det_k >>
    /\ lk_pc' = [lk_pc EXCEPT ![t] = "gr_release"]
    /\ UNCHANGED << streamer_vars, log_vars, thread_vars, issues, det_running, det_pc,
                    published, api_vars, main_pc, ci_log_exists, disk_ok, log_lock,
                    issue_lock, lk_todo >>

\* get_recent_logs: the with block ends
SnapshotUnlock(t) ==
    /\ lk_pc[t] = "gr_release"
    /\ log_lock' = "free"
    /\ lk_pc' = [lk_pc EXCEPT ![t] = IF t = "detector" THEN "scan" ELSE "send"]
    /\ UNCHANGED << streamer_vars, log_vars, thread_vars, det_vars, api_vars, main_pc,
                    ci_log_exists, disk_ok, issue_lock, lk_todo, lk_result >>

\* the scan reaches the next check that matches and calls log_issue
DetNextCheck ==
    /\ lk_pc["detector"] = "scan"
    /\ PendingPairs # {}
    /\ lk_pc' = [lk_pc EXCEPT !["detector"] = "li_acquire"]
    /\ UNCHANGED << streamer_vars, log_vars, thread_vars, det_vars, api_vars, main_pc,
                    ci_log_exists, disk_ok, log_lock, issue_lock, lk_todo, lk_result >>

\* the for loop ends; time.sleep(5)
DetSleep ==
    /\ lk_pc["detector"] = "scan"
    /\ PendingPairs = {}
    /\ det_logs' = << >>
    /\ det_i' = 1
    /\ det_k' = 1
    /\ lk_pc' = [lk_pc EXCEPT !["detector"] = "idle"]
    /\ UNCHANGED << streamer_vars, log_vars, thread_vars, issues, det_running, det_pc,
                    published, api_vars, main_pc, ci_log_exists, disk_ok, log_lock,
                    issue_lock, lk_todo, lk_result >>

\* log_issue: with self.lock
LogIssueLock ==
    /\ lk_pc["detector"] = "li_acquire"
    /\ issue_lock = "free"
    /\ issue_lock' = "detector"
    /\ lk_pc' = [lk_pc EXCEPT !["detector"] = "li_check"]
    /\ UNCHANGED << streamer_vars, log_vars, thread_vars, det_vars, api_vars, main_pc,
                    ci_log_exists, disk_ok, log_lock, lk_todo, lk_result >>

\* a log_issue that echoes the issue it drops as a duplicate
LogIssueCheck_EchoesDuplicate ==
    /\ lk_pc["detector"] = "li_check"
    /\ LET p     == NextPair
           issue == Candidate(p[2], det_logs[p[1]].message)
       IN  /\ IF IsDuplicate(issue)
              THEN /\ UNCHANGED << issues, published >>
                   /\ lk_todo' = [lk_todo EXCEPT !["detector"] = EchoEntriesOf[p[2]]]
              ELSE /\ issues' = RingAppend(issues, issue, MAX_ISSUES)
                   /\ published' = Append(published, issue)
                   /\ lk_todo' = [lk_todo EXCEPT !["detector"] = EchoEntriesOf[p[2]]]
           /\ Advance(p)
    /\ lk_pc' = [lk_pc EXCEPT !["detector"] = "li_release"]
    /\ UNCHANGED << streamer_vars, log_vars, thread_vars, det_running, det_pc, det_logs,
                    api_vars, main_pc, ci_log_exists, disk_ok, log_lock, issue_lock,
                    lk_result >>

\* log_issue: the debounce, then return or self.issues.append
LogIssueCheck ==
    /\ lk_pc["detector"] = "li_check"
    /\ LET p     == NextPair
           issue == Candidate(p[2], det_logs[p[1]].message)
       IN  /\ IF IsDuplicate(issue)
              THEN UNCHANGED << issues, published, lk_todo >>
              ELSE /\ issues' = RingAppend(issues, issue, MAX_ISSUES)
                   /\ published' = Append(published, issue)
                   /\ lk_todo' = [lk_todo EXCEPT !["detector"] = EchoEntriesOf[p[2]]]
           /\ Advance(p)
    /\ lk_pc' = [lk_pc EXCEPT !["detector"] = "li_release"]
    /\ UNCHANGED << streamer_vars, log_vars, thread_vars, det_running, det_pc, det_logs,
                    api_vars, main_pc, ci_log_exists, disk_ok, log_lock, issue_lock,
                    lk_result >>

\* the issue lock stays held over the log_line calls that echo the issue
LogIssueUnlock_KeepsLock ==
    /\ lk_pc["detector"] = "li_release"
    /\ issue_lock' = IF lk_todo["detector"] # << >> THEN issue_lock ELSE "free"
    /\ lk_pc' = [lk_pc EXCEPT !["detector"] =
                    IF lk_todo["detector"] # << >> THEN "ll_acquire" ELSE "scan"]
    /\ UNCHANGED << streamer_vars, log_vars, thread_vars, det_vars, api_vars, main_pc,
                    ci_log_exists, disk_ok, log_lock, lk_todo, lk_result >>

\* log_issue: the with block ends, by the return or after the append; the echo
\* follows a published issue
LogIssueUnlock ==
    /\ lk_pc["detector"] = "li_release"
    /\ issue_lock' = "free"
    /\ lk_pc' = [lk_pc EXCEPT !["detector"] =
                    IF lk_todo["detector"] # << >> THEN "ll_acquire" ELSE "scan"]
    /\ UNCHANGED << streamer_vars, log_vars, thread_vars, det_vars, api_vars, main_pc,
                    ci_log_exists, disk_ok, log_lock, lk_todo, lk_result >>

\* do_GET on /status: handle_status calls get_status
HandleStatusCall ==
    /\ lk_pc["main"] = "idle"
    /\ ServerIdle
    /\ lk_pc' = [lk_pc EXCEPT !["main"] = "gs_read"]
    /\ UNCHANGED << streamer_vars, log_vars, thread_vars, det_vars, api_vars, main_pc,
                    ci_log_exists, disk_ok, log_lock, issue_lock, lk_todo, lk_result >>

\* get_status builds its dict, len(self.log_buffer) included, with no lock taken;
\* handle_status then calls get_issues
StatusRead ==
    /\ lk_pc["main"] = "gs_read"
    /\ lk_result' = [ path |-> "/status", query |-> NoParam, status |-> 200,
                      body |-> get_status, issues |-> << >> ]
    /\ lk_pc' = [lk_pc EXCEPT !["main"] = "gi_acquire"]
    /\ UNCHANGED << streamer_vars, log_vars, thread_vars, det_vars, api_vars, main_pc,
                    ci_log_exists, disk_ok, log_lock, issue_lock, lk_todo >>

\* do_GET on /issues: handle_issues calls get_issues
HandleIssuesCall ==
    /\ lk_pc["main"] = "idle"
    /\ ServerIdle
    /\ lk_result' = [ path |-> "/issues", query |-> NoParam, status |-> 200,
                      issues |-> << >>, count |-> 0 ]
    /\ lk_pc' = [lk_pc EXCEPT !["main"] = "gi_acquire"]
    /\ UNCHANGED << streamer_vars, log_vars, thread_vars, det_vars, api_vars, main_pc,
                    ci_log_exists, disk_ok, log_lock, issue_lock, lk_todo >>

\* get_issues: with self.lock
GetIssuesLock ==
    /\ lk_pc["main"] = "gi_acquire"
    /\ issue_lock = "free"
    /\ issue_lock' = "main"
    /\ lk_pc' = [lk_pc EXCEPT !["main"] = "gi_copy"]
    /\ UNCHANGED << streamer_vars, log_vars, thread_vars, det_vars, api_vars, main_pc,
                    ci_log_exists, disk_ok, log_lock, lk_todo, lk_result >>

\* get_issues: issues_list = list(self.issues), filtered and reversed for the caller
GetIssuesCopy ==
    /\ lk_pc["main"] = "gi_copy"
    /\ lk_result' = IF lk_result.path = "/status"
                    THEN [lk_result EXCEPT !.issues = get_issues(TRUE)]
                    ELSE IssuesResponse
    /\ lk_pc' = [lk_pc EXCEPT !["main"] = "gi_release"]
    /\ UNCHANGED << streamer_vars, log_vars, thread_vars, det_vars, api_vars, main_pc,
                    ci_log_exists, disk_ok, log_lock, issue_lock, lk_todo >>

\* get_issues: the with block ends
GetIssuesUnlock ==
    /\ lk_pc["main"] = "gi_release"
    /\ issue_lock' = "free"
    /\ lk_pc' = [lk_pc EXCEPT !["main"] = "send"]
    /\ UNCHANGED << streamer_vars, log_vars, thread_vars, det_vars, api_vars, main_pc,
                    ci_log_exists, disk_ok, log_lock, lk_todo, lk_result >>

\* send_json_response writes the response to the socket
HandlerSend ==
    /\ lk_pc["main"] = "send"
    /\ http_resp' = lk_result
    /\ lk_result' = NoResponse
    /\ lk_pc' = [lk_pc EXCEPT !["main"] = "idle"]
    /\ UNCHANGED << streamer_vars, log_vars, thread_vars, det_vars, stream,
                    client_connected, backlog, main_pc, ci_log_exists, disk_ok, log_lock,
                    issue_lock, lk_todo >>

\* the calls that start a buffer operation
LockCallNext ==
    \/ \E raw \in LockLines : StreamerLogLineCall(raw)
    \/ MainLogLineCall
    \/ DetScanCall \/ DetNextCheck \/ DetSleep
    \/ HandleLogsCall \/ HandleStatusCall \/ HandleIssuesCall

\* the steps of thread t inside a buffer operation
LockStep(t) ==
    \/ LogLineLock(t) \/ LogLineAppend(t) \/ LogLineUnlock(t) \/ LogLineOutput(t)
    \/ SnapshotLock(t) \/ SnapshotCopy(t) \/ SnapshotUnlock(t)
    \/ t = "detector" /\ LogIssueLock
    \/ t = "detector" /\ LogIssueCheck
    \/ t = "detector" /\ LogIssueUnlock
    \/ t = "main" /\ StatusRead
    \/ t = "main" /\ GetIssuesLock
    \/ t = "main" /\ GetIssuesCopy
    \/ t = "main" /\ GetIssuesUnlock
    \/ t = "main" /\ HandlerSend

(***************************************************************************)
(* The daemon after main() has built LogStreamer and IssueDetector and      *)
(* started both threads                                                     *)
(***************************************************************************)
Init ==
    /\ running = TRUE
    /\ phase = CLOUD_INIT
    /\ cloud_init_complete = FALSE
    /\ container_started = FALSE
    /\ log_buffer = << >>
    /\ issues = << >>
    /\ det_running = TRUE
    /\ stdout = {}
    /\ log_file = {}
    /\ pc = "run"
    /\ waited = 0
    /\ cur_line = ""
    /\ tail_proc = "none"
    /\ follow_proc = "none"
    /\ det_pc = "scan"
    /\ det_logs = << >>
    /\ det_i = 1
    /\ det_k = 1
    /\ main_pc = "starting"
    /\ http_resp = NoResponse
    /\ stream = ClosedStream
    /\ ci_log_exists \in BOOLEAN
    /\ client_connected = FALSE
    /\ backlog = {}
    /\ log_seq = 0
    /\ published = << >>
    /\ lines_read = 0
    /\ disk_ok = TRUE
    /\ log_lock = "free"
    /\ issue_lock = "free"
    /\ lk_pc = [t \in LockThreads |-> "idle"]
    /\ lk_todo = [t \in LockThreads |-> << >>]
    /\ lk_result = NoResponse
    /\ stderr = {}

\* the threads that write the LogBuffer on their own: the streamer and main
ProducerNext == StreamerNext \/ MainNext \/ CloudInitLogCreated

Next == ProducerNext \/ DiskFails \/ DetectorNext \/ ApiNext

\* the whole daemon
Spec == Init /\ [][Next]_vars

\* the streamer and main, with a log directory that may fail
StreamerSystemNext == ProducerNext \/ DiskFails
SpecStreamer == Init /\ [][StreamerSystemNext]_vars

\* the streamer, main and the detector
DetectorSystemNext == ProducerNext \/ DetectorNext
SpecDetector == Init /\ [][DetectorSystemNext]_vars

\* the streamer, main and GET /logs
LogsSystemNext == ProducerNext \/ LogsNext
SpecLogs == Init /\ [][LogsSystemNext]_vars

\* the streamer, main and GET /stream
StreamSystemNext == ProducerNext \/ StreamNext
SpecStream == Init /\ [][StreamSystemNext]_vars

\* the streamer, main, the handlers that answer from the state and a failing request
RequestsSystemNext ==
    \/ ProducerNext
    \/ StateNext
    \/ \E query \in LinesParams : HandleLogsBadQuery(query)
SpecRequests == Init /\ [][RequestsSystemNext]_vars

\* the daemon while it serves: both threads and main, with no KeyboardInterrupt.  A
\* handler runs only in these states.
ServingNext ==
    StreamerRunningNext \/ MainListen \/ CloudInitLogCreated \/ DetectorRunningNext

\* the serving daemon with GET /issues and GET /status
IssuesSystemNext == ServingNext \/ HandleIssues \/ HandleStatus
SpecIssues == Init /\ [][IssuesSystemNext]_vars

\* the requests are made once the streamer thread has ended after at most one read
\* of the container log and an issue has been published
LateRequest == pc = "done" /\ lines_read <= 1 /\ issues # << >>

\* the serving daemon with every handler
FrameSystemNext ==
    \/ ServingNext
    \/ LateRequest /\ \E query \in LinesParams : HandleLogs(query)
    \/ LateRequest /\ \E query \in LinesParams : HandleLogsBadQuery(query)
    \/ LateRequest /\ StreamOpen
    \/ LateRequest /\ StreamPoll
    \/ LateRequest /\ StreamBrokenPipe
    \/ LateRequest /\ ClientDisconnect
    \/ LateRequest /\ HandleHealth
    \/ LateRequest /\ HandleStatus
    \/ LateRequest /\ HandleIssues
    \/ LateRequest /\ \E path \in UnknownPaths : HandleNotFound(path)
    \/ LateRequest /\ \E path \in QueuedPaths : RequestQueued(path)
    \/ LateRequest /\ \E path \in QueuedPaths : ServeQueued(path)
SpecFrame == Init /\ [][FrameSystemNext]_vars

\* the serving daemon without the detector, GET /stream and the requests made
\* while it is open: the streamer thread keeps running, the handler runs its next
\* iteration after every sleep, and serve_forever accepts a waiting connection
\* whenever no handler is running
QueueSystemNext ==
    StreamerRunningNext \/ MainListen \/ CloudInitLogCreated \/ StreamNext \/ QueueNext
SpecQueue ==
    /\ Init /\ [][QueueSystemNext]_vars
    /\ WF_vars(StreamerRunningNext)
    /\ WF_vars(StreamPoll) /\ WF_vars(StreamBrokenPipe)
    /\ WF_vars(\E path \in QueuedPaths : ServeQueued(path))

\* both threads are scheduled again and again; a readline of the tail or follow
\* loop returns only when the subprocess writes a line or closes its output, which
\* nothing obliges it to do
SpecShutdown ==
    /\ SpecDetector
    /\ WF_vars(StreamerNext /\ pc # "ci_tail" /\ pc # "rt_follow")
    /\ WF_vars(DetectorNext)

\* the three threads at the grain of the locks; a thread inside a buffer operation
\* is scheduled again and again
LockSystemNext == LockCallNext \/ \E t \in LockThreads : LockStep(t)
SpecLocks ==
    /\ Init /\ [][LockSystemNext]_vars
    /\ \A t \in LockThreads : WF_vars(LockStep(t))

\* the same threads, where the detector's log_line is not passed over for ever: its
\* acquire of LogStreamer.lock succeeds if the lock is free again and again
SpecEcho == SpecLocks /\ SF_vars(LogLineLock("detector"))

\* the serving daemon whose container also writes the lines with several signatures
ChecksSystemNext ==
    \/ ServingNext
    \/ \E raw \in SignatureLines : RtReadLine(raw)
SpecChecks == Init /\ [][ChecksSystemNext]_vars

\* the serving daemon whose container also writes the lines longer than the evidence
EvidenceSystemNext ==
    \/ ServingNext
    \/ \E raw \in LongLines : RtReadLine(raw)
SpecEvidence == Init /\ [][EvidenceSystemNext]_vars

\* the detector behind a streamer that goes straight to the container's log, reads
\* its lines and sees the follow end: the sources fall silent, the detector is
\* scheduled again and again
FeedbackSystemNext ==
    \/ RunStart \/ CiWaitSleep \/ CiLogMissing \/ CsStart \/ DockerReady \/ ContainerFound
    \/ \E hist \in Histories : RtFollowStart(hist)
    \/ \E raw \in FeedbackLines : RtReadLine(raw)
    \/ RtFollowEOF \/ RtProcExited
    \/ DetectorRunningNext
SpecFeedback == Init /\ [][FeedbackSystemNext]_vars /\ WF_vars(DetectorRunningNext)

\* the serving daemon with a detector whose scans may raise, up to the
\* KeyboardInterrupt that stops the detector
FaultsSystemNext ==
    \/ ServingNext
    \/ MainShutdown
    \/ DetStopped
    \/ DetScanRaises
    \/ DetEchoRaises
SpecFaults == Init /\ [][FaultsSystemNext]_vars

\* the streamer and main, a log directory that may fail, and GET /logs
DiskSystemNext ==
    \/ ProducerNext
    \/ DiskFails
    \/ HandleLogs(NoParam)
SpecDisk == Init /\ [][DiskSystemNext]_vars

\* the streamer while it runs, reading the cloud-init lines on which rules meet
ClassifySystemNext ==
    \/ StreamerRunningNext
    \/ CloudInitLogCreated
    \/ \E raw \in ClassifierLines : CiReadLine(raw)
SpecClassify == Init /\ [][ClassifySystemNext]_vars

\* the streamer while it runs, following a container log with the lines of both
\* branches of the formatter
LevelsSystemNext ==
    \/ StreamerRunningNext
    \/ CloudInitLogCreated
    \/ \E raw \in LevelLines : RtReadLine(raw)
SpecLevels == Init /\ [][LevelsSystemNext]_vars

\* GET /stream with a handler that runs its next iteration after every sleep
SpecStreamLive == SpecStream /\ WF_vars(StreamPoll) /\ WF_vars(StreamBrokenPipe)

(***************************************************************************)
(* Properties                                                               *)
(***************************************************************************)
Min(a, b) == IF a <= b THEN a ELSE b

\* the last Min(n, Len(lst)) elements of lst, in order
LastMin(lst, n) ==
    [i \in 1..Min(n, Len(lst)) |-> lst[Len(lst) - Min(n, Len(lst)) + i]]

\* the entries the step appended: the last log_seq' - log_seq entries of the buffer
AppendedByStep ==
    SubSeq(log_buffer', Len(log_buffer') - (log_seq' - log_seq) + 1, Len(log_buffer'))

\* C1: after every append the LogBuffer holds exactly the most recent
\* min(n, MAX_LOG_LINES) of the n entries appended so far, in append order (entry
\* number t carries timestamp t), and the IssueBuffer holds exactly the most recent
\* min(n, MAX_ISSUES) published issues in publication order; neither exceeds its
\* capacity.
C1_RingBuffers ==
    /\ Len(log_buffer) = Min(log_seq, MAX_LOG_LINES)
    /\ \A i \in 1..Len(log_buffer) :
          log_buffer[i].timestamp = log_seq - Len(log_buffer) + i
    /\ Len(issues) <= MAX_ISSUES
    /\ issues = LastMin(published, MAX_ISSUES)

\* both buffers have dropped entries
C1_Witness ==
    /\ log_seq > MAX_LOG_LINES
    /\ Len(published) > MAX_ISSUES

\* C2: the phase starts at cloud_init and every step leaves it unchanged or moves it
\* one stage forward, cloud_init -> container_startup -> runtime.
C2_PhaseMonotonic ==
    /\ phase = CLOUD_INIT
    /\ [][ \/ phase' = phase
           \/ phase = CLOUD_INIT /\ phase' = CONTAINER_STARTUP
           \/ phase = CONTAINER_STARTUP /\ phase' = RUNTIME ]_vars

\* the last stage is reached after a stop request
C2_Witness == phase = RUNTIME /\ ~running

\* the lines of the cloud-init log that carry the completion marker
MarkerLines == { raw \in ProvLines : Contains(raw, "Cloud-init") /\ Contains(raw, "finished") }

\* C3: when the tail loop, with running true, reads a line containing "Cloud-init"
\* and "finished", the step sets cloud_init_complete and appends exactly one entry of
\* category success, the loop is left for process.wait, and whichever way
\* process.wait ends the phase becomes container_startup.
C3_CompletionMarker ==
    /\ [][ (pc = "ci_tail" /\ running /\ lines_read' # lines_read /\ cur_line' \in MarkerLines)
           => /\ cloud_init_complete'
              /\ Cardinality({ i \in 1..Len(AppendedByStep) :
                                 AppendedByStep[i].category = "success" }) = 1
              /\ pc' = "ci_waitproc"
              /\ phase' = CLOUD_INIT ]_vars
    /\ [][ (pc = "ci_waitproc" /\ pc' # pc)
           => phase = CLOUD_INIT /\ phase' = CONTAINER_STARTUP ]_vars

\* the marker was read and the phase has advanced
C3_Witness ==
    /\ cur_line \in MarkerLines
    /\ tail_proc \in {"terminated", "exited"}
    /\ cloud_init_complete
    /\ phase = CONTAINER_STARTUP
    /\ \E i \in 1..Len(log_buffer) :
          log_buffer[i].category = "success" /\ log_buffer[i].message = MsgCloudInitDone

\* the messages that contain a noise pattern
NoisyMessages == { m \in AllMessages : \E p \in noise_patterns : Contains(m, p) }

BufferMessages == { log_buffer[i].message : i \in 1..Len(log_buffer) }

\* C4 as claimed: no line containing a noise pattern is in the LogBuffer, on standard
\* output or in the log file, whichever phase it was read in.
C4_NoNoiseAnywhere == (BufferMessages \cup stdout \cup log_file) \cap NoisyMessages = {}

\* C4 as amended: a line containing a noise pattern reaches the LogBuffer, standard
\* output and the log file only from the container log: before the phase is runtime
\* none is present, and in the buffer every such entry has category container.
C4_NoiseOnlyFromContainer ==
    /\ phase # RUNTIME => (BufferMessages \cup stdout \cup log_file) \cap NoisyMessages = {}
    /\ \A i \in 1..Len(log_buffer) :
          log_buffer[i].message \in NoisyMessages => log_buffer[i].category = "container"

\* the tail loop has read a noise line, and it is still reading
C4_Witness ==
    /\ pc = "ci_tail"
    /\ lines_read >= 1
    /\ \E p \in noise_patterns : Contains(cur_line, p)

\* the message the container log line "Error: connect: connection refused" is
\* buffered with
ConnRefusedMsg == format_container_log_line("Error: connect: connection refused")

\* the published issues whose evidence is that message
ConnRefusedIssues == { i \in 1..Len(published) : published[i].line = ConnRefusedMsg }

\* C5: every issue published for the entry "Error: connect: connection refused" has
\* type connection and severity warning; once a scan has passed that entry an issue
\* for it has been published; and an issue with the same type and evidence line is
\* published again only when the earlier one is no longer among the DEDUP_WINDOW most
\* recently published, so a scan that re-reads the entry inside the window publishes
\* nothing for it.
C5_ConnectionOnce ==
    /\ \A i \in ConnRefusedIssues :
          published[i].type = "connection" /\ published[i].severity = "warning"
    /\ (det_pc = "check" /\ \E i \in 1..Len(det_logs) :
                               i < det_i /\ det_logs[i].message = ConnRefusedMsg)
          => ConnRefusedIssues # {}
    /\ \A i, j \in 1..Len(published) :
          (i < j /\ published[i].type = published[j].type
                 /\ published[i].line = published[j].line) => j - i > DEDUP_WINDOW

\* a later scan, whose snapshot holds the echo of the issue, has re-read the entry
\* and the issue is still the only one for it
C5_Witness ==
    /\ det_pc = "check"
    /\ \E i \in 1..Len(det_logs) : i < det_i /\ det_logs[i].message = ConnRefusedMsg
    /\ \E i \in 1..Len(det_logs) : det_logs[i].message = EchoEntriesOf[5][1][1]
    /\ Cardinality(ConnRefusedIssues) = 1

\* the N of a /logs request: int(lines), 100 by default
RequestedLines(query) == IF query = NoParam THEN DEFAULT_LINES ELSE ParseInt(query)

\* C6: a GET /logs answered with N >= 1 (N = DEFAULT_LINES without a lines parameter)
\* returns exactly the last min(N, L) entries of the LogBuffer as it is when the
\* request is handled, in append order, and count is the number of entries returned.
C6_LastN ==
    [][ ( /\ http_resp' # http_resp
          /\ http_resp'.path = "/logs"
          /\ http_resp'.status = 200
          /\ RequestedLines(http_resp'.query) >= 1 )
        => /\ http_resp'.logs = LastMin(log_buffer, RequestedLines(http_resp'.query))
           /\ http_resp'.count = Len(http_resp'.logs) ]_vars

\* lines=2 was answered from a buffer that had already dropped its oldest entry
C6_Witness ==
    /\ http_resp.path = "/logs"
    /\ http_resp.status = 200
    /\ http_resp.query = "2"
    /\ http_resp.count = 2
    /\ http_resp.logs[1].timestamp >= MAX_LOG_LINES

\* C7: for every integer value of lines, 0 and negative values included, GET /logs
\* returns no more than N entries (none when N <= 0).
C7_AtMostN ==
    ( /\ http_resp.path = "/logs"
      /\ http_resp.status = 200
      /\ http_resp.query # NoParam )
    => http_resp.count <= (IF ParseInt(http_resp.query) > 0 THEN ParseInt(http_resp.query) ELSE 0)

\* t is one of the elements of seq
InSeq(t, seq) == \E i \in 1..Len(seq) : seq[i] = t

\* C8: while a /stream connection stays open, every entry appended after it was
\* opened is eventually emitted on it, and the entries are emitted in append order.
C8_EveryAppendStreamed ==
    /\ [](\A i, j \in 1..Len(stream.sent) : i < j => stream.sent[i] < stream.sent[j])
    /\ \A t \in 1..MaxAppends :
          (stream.state = "open" /\ stream.opened_at < t /\ t <= log_seq)
             ~> (stream.state # "open" \/ InSeq(t, stream.sent))

\* C9: no entry is emitted twice on one /stream connection.
C9_NoRepeat ==
    \A i, j \in 1..Len(stream.sent) : i # j => stream.sent[i] # stream.sent[j]

\* two iterations have each written events, and the LogBuffer has since dropped an
\* entry the connection was sent
C9_Witness ==
    /\ stream.state = "open"
    /\ stream.polls >= 2
    /\ Len(stream.sent) >= 2
    /\ stream.sent[1] < log_buffer[1].timestamp

\* C10: a /stream connection emits only entries appended after it was opened.
C10_OnlyNewEntries ==
    \A i \in 1..Len(stream.sent) : stream.sent[i] > stream.opened_at

\* C11: when the container polling loop has used up its bound without finding the
\* container, the streamer logs one warning entry and run() returns normally with
\* the phase still container_startup and container_started false; from then on the
\* phase never becomes runtime.  Every /health response is 200 with status healthy,
\* and the request can be answered in every state where the server is serving.
C11_ProbesFailToBound ==
    /\ [][(pc = "cs_poll" /\ waited >= CONTAINER_TIMEOUT /\ pc' # pc)
            => /\ pc' = "done"
               /\ phase' = CONTAINER_STARTUP
               /\ ~container_started'
               /\ Len(AppendedByStep) = 1
               /\ AppendedByStep[1].message = MsgNoContainer
               /\ AppendedByStep[1].category = "warning"]_vars
    /\ [](MsgNoContainer \in stdout
            => phase = CONTAINER_STARTUP /\ ~container_started /\ pc = "done")
    /\ [](http_resp.path = "/health"
            => http_resp.status = 200 /\ http_resp.body.status = "healthy")
    /\ [](main_pc = "serving" => ENABLED HandleHealth)

\* /health was answered after the warning had been logged
C11_Witness ==
    /\ pc = "done"
    /\ phase = CONTAINER_STARTUP
    /\ http_resp.path = "/health"
    /\ \E i \in 1..Len(log_buffer) :
          /\ log_buffer[i].message = MsgNoContainer
          /\ log_buffer[i].category = "warning"
          /\ http_resp.body.timestamp >= log_buffer[i].timestamp

\* the candidate log_issue is called with next
NextCandidate == Candidate(NextPair[2], det_logs[NextPair[1]].message)

\* one of the DEDUP_WINDOW most recently published issues has the candidate's type
\* and evidence line
RecentlyPublished(issue) ==
    \E r \in 1..Len(LastMin(published, DEDUP_WINDOW)) :
        /\ LastMin(published, DEDUP_WINDOW)[r].type = issue.type
        /\ LastMin(published, DEDUP_WINDOW)[r].line = issue.line

\* the matching (entry, check) pairs of the snapshot that log_issue was called for
PassedPairs ==
    { p \in (1..Len(det_logs)) \X (1..5) :
        /\ p[1] < det_i \/ (p[1] = det_i /\ p[2] < det_k)
        /\ p[2] \in MatchingChecks[det_logs[p[1]].message] }

\* C12: a call of log_issue appends the candidate to the IssueBuffer exactly when
\* none of the DEDUP_WINDOW most recently published issues has both its type and
\* its evidence line; a call that drops the candidate leaves the IssueBuffer and the
\* LogBuffer as they were.
C12_PublishIffNew ==
    [][(det_pc = "check" /\ PendingPairs # {} /\ << det_i, det_k >>' # << det_i, det_k >>)
        => IF RecentlyPublished(NextCandidate)
           THEN issues' = issues /\ published' = published
                /\ log_buffer' = log_buffer /\ log_seq' = log_seq
           ELSE /\ published' = Append(published, NextCandidate)
                /\ Len(issues') = Min(Len(issues) + 1, MAX_ISSUES)
                /\ issues'[Len(issues')] = NextCandidate
                /\ \A i \in 1..(Len(issues') - 1) :
                      issues'[i] = issues[Len(issues) - (Len(issues') - 1) + i]]_vars

\* in one scan log_issue was called more often than issues were ever published:
\* one call published and a later one dropped a duplicate
C12_Witness ==
    /\ det_pc = "check"
    /\ published # << >>
    /\ Cardinality(PassedPairs) > Len(published)

\* C13: a GET /health or GET /status request made while a /stream connection is
\* open is eventually answered.
C13_AnsweredWhileStreaming ==
    \A path \in QueuedPaths : (path \in backlog) ~> (path \notin backlog)

\* C14: once the running flag is false, the streamer's run() and the detector's
\* loop both end eventually, with no subprocess left that was not asked to
\* terminate.
C14_StopEndsBothLoops ==
    ~running ~> (/\ pc = "done" /\ det_pc = "done"
                 /\ tail_proc # "alive" /\ follow_proc # "alive")

KnownPaths == { "/health", "/logs", "/status", "/issues", "/stream" }

\* C15: a response to a path that is none of the five endpoints is a 404; a /logs
\* request whose lines value int() rejects is answered 500 with the text of the
\* ValueError; the step that answers 404 or 500 leaves the server serving, and in
\* every serving state with no handler running the next request can be answered.
C15_ErrorResponses ==
    /\ [](http_resp.path \notin KnownPaths \cup {""} => http_resp.status = 404)
    /\ [](http_resp.status = 404 => http_resp.path \notin KnownPaths)
    /\ [](http_resp.path = "/logs" /\ http_resp.query # NoParam /\ ~IsInt(http_resp.query)
            => /\ http_resp.status = 500
               /\ http_resp.message
                    = "invalid literal for int() with base 10: '" \o http_resp.query \o "'")
    /\ [][(http_resp' # http_resp /\ http_resp'.status \in {404, 500})
            => main_pc' = "serving" /\ ServerIdle']_vars
    /\ [](ServerIdle => ENABLED HandleHealth /\ ENABLED HandleStatus)

\* the server is between two requests, the last of which it answered with 500
C15_Witness ==
    /\ ServerIdle
    /\ http_resp.status = 500
    /\ http_resp.query = "abc"
    /\ log_buffer # << >>

\* C16: a step of a request handler (one that changes the response, the stream
\* connection or the queue of waiting requests) leaves the LogBuffer, the count of
\* appends and the IssueBuffer as they were.
C16_HandlersOnlyRead ==
    [][api_vars' # api_vars
        => log_buffer' = log_buffer /\ log_seq' = log_seq /\ issues' = issues]_vars

\* /issues was answered from a buffer holding an issue, with the LogBuffer full
C16_Witness ==
    /\ http_resp.path = "/issues"
    /\ http_resp.status = 200
    /\ issues # << >>
    /\ http_resp.issues = Reverse(issues)
    /\ Len(log_buffer) = MAX_LOG_LINES

\* C17: the answer to GET /issues lists the issues of the IssueBuffer, each once,
\* from the most recently published to the oldest, and its count is the length of
\* that list.
C17_IssuesNewestFirst ==
    [][(http_resp' # http_resp /\ http_resp'.path = "/issues")
        => /\ http_resp'.status = 200
           /\ Len(http_resp'.issues) = Len(issues)
           /\ \A i \in 1..Len(issues) : http_resp'.issues[i] = issues[Len(issues) + 1 - i]
           /\ \A i \in 1..(Len(issues) - 1) :
                 http_resp'.issues[i].timestamp > http_resp'.issues[i + 1].timestamp
           /\ http_resp'.count = Len(http_resp'.issues)]_vars

\* /issues was answered from a full IssueBuffer that had dropped its oldest issue
C17_Witness ==
    /\ http_resp.path = "/issues"
    /\ http_resp.count = MAX_ISSUES
    /\ http_resp.issues = Reverse(issues)
    /\ Len(published) > MAX_ISSUES

\* C18: every issue in the IssueBuffer, and every issue ever published, has
\* resolved false, and the issue list a GET /status answer carries is the list
\* GET /issues returns on the same buffer.
C18_NeverResolved ==
    /\ [](\A i \in 1..Len(issues) : issues[i].resolved = FALSE)
    /\ [](\A i \in 1..Len(published) : published[i].resolved = FALSE)
    /\ [](StatusResponse.issues = IssuesResponse.issues)
    /\ [][(http_resp' # http_resp /\ http_resp'.path = "/status")
            => /\ Len(http_resp'.issues) = Len(issues)
               /\ \A i \in 1..Len(issues) :
                     http_resp'.issues[i] = issues[Len(issues) + 1 - i]]_vars

\* /status was answered with two issues, and /issues would list the same
C18_Witness ==
    /\ http_resp.path = "/status"
    /\ Len(http_resp.issues) >= 2
    /\ http_resp.issues = IssuesResponse.issues

\* C19: when the readiness loop ends with its bound used up and the docker daemon
\* never ready, the streamer goes on to poll for the container.
C19_ContinuesAfterDockerTimeout ==
    [][(pc = "cs_docker" /\ running /\ waited >= DOCKER_MAX_WAIT /\ pc' # pc)
        => pc' = "cs_poll"]_vars

\* C20: whenever the phase is runtime, container_started is true.
C20_RuntimeOnlyOnDetection == phase = RUNTIME => container_started

\* the positions of the streamer thread inside stream_cloud_init
CloudInitPcs == { "ci_wait", "ci_tail", "ci_waitproc" }

\* C21: every step by which the streamer thread leaves stream_cloud_init sets the
\* phase to container_startup and goes on to stream_container_startup; the phase is
\* cloud_init exactly while the thread has not left stream_cloud_init.
C21_EveryExitToContainerStartup ==
    /\ [][(pc \in CloudInitPcs /\ pc' \notin CloudInitPcs)
            => phase' = CONTAINER_STARTUP /\ pc' = "cs_start"]_vars
    /\ [](phase = CLOUD_INIT <=> pc \in CloudInitPcs \cup {"run"})

\* the tail loop was left on a stop request, process.wait raised, and the thread
\* went on with the phase container_startup
C21_Witness ==
    /\ pc = "cs_start"
    /\ phase = CONTAINER_STARTUP
    /\ ~running
    /\ ~cloud_init_complete
    /\ tail_proc = "terminated"

\* C22: once the client of an open /stream connection is gone, the handler
\* eventually returns.
C22_HandlerReturnsAfterDisconnect ==
    (stream.state = "open" /\ ~client_connected) ~> (stream.state = "closed")

\* C23: a step of the detector thread or of a request handler appends nothing to
\* the LogBuffer.
C23_StreamerSoleWriter ==
    [][log_seq' # log_seq
        => /\ << det_pc, det_i, det_k >>' = << det_pc, det_i, det_k >>
           /\ http_resp' = http_resp]_vars

\* the positions from which a thread's next step reads or writes the LogBuffer, and
\* the IssueBuffer
LogBufferAccessPcs   == { "ll_append", "gr_copy", "gs_read" }
IssueBufferAccessPcs == { "li_check", "gi_copy" }

\* C24: a thread that appends to a buffer, copies it or reads its length holds the
\* buffer's lock while it does so.
C24_AccessesUnderLock ==
    [][\A t \in LockThreads :
          /\ (lk_pc[t] \in LogBufferAccessPcs /\ lk_pc'[t] # lk_pc[t]) => log_lock = t
          /\ (lk_pc[t] \in IssueBufferAccessPcs /\ lk_pc'[t] # lk_pc[t])
                => issue_lock = t]_vars

\* the positions in which a thread waits for a lock
AcquirePcs == { "ll_acquire", "gr_acquire", "li_acquire", "gi_acquire" }

\* C25: a thread holds the LogBuffer lock only from its acquire to the release
\* that follows the append or the copy, and the IssueBuffer lock likewise; no thread
\* holds both locks; the step that prints, writes the log file or writes a response
\* to the socket is taken by a thread that holds no lock; a thread that holds a lock
\* never waits for one, so no two threads can wait for each other; and every lock
\* that is held is released (each lock is free again and again).
C25_LocksScoped ==
    /\ [](\A t \in LockThreads :
            /\ log_lock = t => lk_pc[t] \in { "ll_append", "ll_release", "gr_copy", "gr_release" }
            /\ issue_lock = t => lk_pc[t] \in { "li_check", "li_release", "gi_copy", "gi_release" }
            /\ ~(log_lock = t /\ issue_lock = t)
            /\ (log_lock = t \/ issue_lock = t) => lk_pc[t] \notin AcquirePcs)
    /\ [][(stdout' # stdout \/ log_file' # log_file \/ http_resp' # http_resp)
            => \A t \in LockThreads :
                  lk_pc'[t] # lk_pc[t] => log_lock # t /\ issue_lock # t]_vars
    /\ []<>(log_lock = "free")
    /\ []<>(issue_lock = "free")

\* the streamer holds the LogBuffer lock and the detector the IssueBuffer lock
\* while the handler waits for one of them
C25_Witness ==
    /\ log_lock = "streamer"
    /\ issue_lock = "detector"
    /\ lk_pc["main"] \in AcquirePcs

\* docker logs -f has ended
FollowEnded == follow_proc = "exited"

\* C26: once the follow stream of the container log has ended in Runtime, the
\* streamer is past its read loop for good: no follow subprocess is started again,
\* no entry of category container is appended, the phase stays Runtime, and a
\* GET /logs is still answered, with the slice of the buffer as it then is.
C26_NoReconnect ==
    /\ [](FollowEnded => phase = RUNTIME /\ pc \in { "rt_waitproc", "done" })
    /\ [][FollowEnded =>
            /\ follow_proc' = "exited"
            /\ phase' = RUNTIME
            /\ \A i \in DOMAIN AppendedByStep : AppendedByStep[i].category # "container"
            /\ (http_resp' # http_resp /\ http_resp'.status = 200)
                  => http_resp'.logs =
                        get_recent_logs(IF http_resp'.query = NoParam THEN DEFAULT_LINES
                                        ELSE ParseInt(http_resp'.query))]_vars
    /\ [](FollowEnded /\ ServerIdle => ENABLED HandleLogs(NoParam))

\* the stream ended while the streamer was running, the thread is finished, and the
\* last GET /logs shows the buffer, with the container entry that was read
C26_Witness ==
    /\ FollowEnded /\ running /\ pc = "done"
    /\ phase = RUNTIME
    /\ http_resp.path = "/logs" /\ http_resp.status = 200
    /\ http_resp.logs = get_recent_logs(DEFAULT_LINES)
    /\ \E i \in DOMAIN http_resp.logs : http_resp.logs[i].category = "container"

\* the echo entries of the last published issue that are still to be appended
EchoPending == lk_todo["detector"]

\* s is what is left of seq after some of its first elements
IsSuffix(s, seq) == \E n \in 0..Len(seq) : s = SubSeq(seq, n + 1, Len(seq))

\* C27: the step that publishes an issue puts it in the IssueBuffer and appends
\* nothing to the LogBuffer yet; the echo is owed from then on, the message entry
\* before the recommendation entry, and it is owed for a published issue only.
\* Every entry of category issue that is appended is the next entry owed for the
\* last published issue, which is in the IssueBuffer at that moment, and the echo
\* is always completed.
C27_EchoAfterPublish ==
    /\ [][published' # published =>
            /\ Len(published') = Len(published) + 1
            /\ issues'[Len(issues')] = published'[Len(published')]
            /\ log_buffer' = log_buffer
            /\ EchoPending' = EchoEntries(published'[Len(published')])]_vars
    /\ [][(EchoPending' # EchoPending /\ EchoPending = << >>)
            => published' # published]_vars
    /\ [][\A i \in DOMAIN AppendedByStep :
            AppendedByStep[i].category = "issue" =>
               /\ published # << >>
               /\ issues # << >>
               /\ issues[Len(issues)] = published[Len(published)]
               /\ EchoPending # << >>
               /\ IsSuffix(EchoPending, EchoEntries(published[Len(published)]))
               /\ AppendedByStep[i].message = Head(EchoPending)[1]
               /\ EchoPending[Len(EchoPending)][1]
                     = "   " \o IconArrow \o " " \o published[Len(published)].recommendation]_vars
    /\ (EchoPending # << >>) ~> (EchoPending = << >>)

\* both echo entries of a published issue are in the LogBuffer, the message entry
\* before the recommendation entry, and the issue is in the IssueBuffer
C27_Witness ==
    /\ published # << >>
    /\ issues # << >>
    /\ EchoPending = << >>
    /\ lk_pc["detector"] = "scan"
    /\ \E i, j \in DOMAIN log_buffer :
          /\ i < j
          /\ log_buffer[i].category = "issue" /\ log_buffer[j].category = "issue"
          /\ << log_buffer[i].message, "issue" >> = EchoEntries(issues[Len(issues)])[1]
          /\ << log_buffer[j].message, "issue" >> = EchoEntries(issues[Len(issues)])[2]

\* the published issues of the type of check k
PublishedOfType(k) == { i \in DOMAIN published : published[i].type = Signatures[k].type }

\* C28: as long as the sources have fed at most one line to the daemon, at most one
\* issue of each type has been published, however many scans have run.
C28_OneIssuePerLine ==
    lines_read <= 1 => \A k \in 1..5 : Cardinality(PublishedOfType(k)) <= 1

\* the buffered entries that no later scan can reach: a scan takes the last
\* SCAN_WINDOW entries, and the buffer only moves on
BehindScanWindow == 1..(Len(log_buffer) - SCAN_WINDOW)

\* entry e is in the snapshot of the running scan and its turn is still to come
AwaitsCheck(e) ==
    /\ det_pc = "check"
    /\ \E i \in det_i..Len(det_logs) : det_logs[i] = e

\* check k on entry e has led to a published issue, or finds one to be dropped for
WasReported(e, k) ==
    \E j \in DOMAIN published :
        /\ published[j].type = Signatures[k].type
        /\ published[j].line = Truncate(e.message, EVIDENCE_MAX)

\* C29: no entry that carries a failure signature gets behind the reach of the
\* scans before it was examined: once it is out of the scan window, each of its
\* signatures has been reported, or the entry is in the snapshot of the scan that is
\* running.
C29_EveryEntryScanned ==
    \A i \in BehindScanWindow :
        \A k \in MatchingChecks[log_buffer[i].message] :
            WasReported(log_buffer[i], k) \/ AwaitsCheck(log_buffer[i])

\* the order of the checks, and the severity each type is reported with
TypeOrder == << "oom", "crash", "port_conflict", "permission", "connection" >>
SeverityOf ==
    [ oom |-> "critical", crash |-> "critical", port_conflict |-> "error",
      permission |-> "error", connection |-> "warning" ]

\* pair a = <<entry, check>> comes before pair b in scan order
ScanBefore(a, b) == a[1] < b[1] \/ (a[1] = b[1] /\ a[2] < b[2])

\* the (entry, check) pairs of the snapshot whose check matches the entry
MatchingPairs ==
    { q \in (1..Len(det_logs)) \X (1..5) : q[2] \in MatchingChecks[det_logs[q[1]].message] }

\* C30: every check that matches an entry of the snapshot gives a candidate of its
\* own, whatever the other checks found: when the scan ends, each matching (entry,
\* check) pair has an issue of the check's type with the entry as evidence.  The
\* candidates come in scan order, entry by entry and within an entry in the order
\* oom, crash, port_conflict, permission, connection: an issue is published for the
\* first matching pair not yet passed, and the scan moves past that pair only.  Each
\* issue has the type of its check and that type's severity.
C30_ChecksIndependentOrdered ==
    /\ [][published' # published =>
            LET new == published'[Len(published')]
                here == << det_i, det_k >>
            IN  \E q \in MatchingPairs :
                    /\ ~ScanBefore(q, here)
                    /\ \A r \in MatchingPairs : ~(~ScanBefore(r, here) /\ ScanBefore(r, q))
                    /\ new.type = TypeOrder[q[2]]
                    /\ new.severity = SeverityOf[new.type]
                    /\ new.line = Truncate(det_logs[q[1]].message, EVIDENCE_MAX)
                    /\ ScanBefore(q, << det_i', det_k' >>)
                    /\ \A r \in MatchingPairs :
                          ScanBefore(q, r) => ~ScanBefore(r, << det_i', det_k' >>)]_vars
    /\ [][(det_pc = "check" /\ det_pc' = "scan") =>
            \A q \in MatchingPairs :
                \E j \in DOMAIN published :
                    /\ published[j].type = TypeOrder[q[2]]
                    /\ published[j].line = Truncate(det_logs[q[1]].message, EVIDENCE_MAX)]_vars

\* a scan has ended in which one entry matched two checks: its port_conflict issue
\* was published before its permission issue, both with the entry as evidence
C30_Witness ==
    /\ det_pc = "scan"
    /\ \E i, j \in DOMAIN published :
          /\ j = i + 1
          /\ published[i].type = "port_conflict" /\ published[i].severity = "error"
          /\ published[j].type = "permission" /\ published[j].severity = "error"
          /\ published[i].line = published[j].line

\* C31: a scan that raises leaves the detector at the head of its loop, with the
\* error printed on sys.stderr; the detector thread ends only when its running flag
\* is false; and at the head of its loop with the flag true, after an exception as
\* after a completed scan, the detector's next step is another scan.
C31_ScanErrorsSurvived ==
    /\ [][stderr' # stderr => det_pc' = "scan" /\ MsgScanErr \in stderr']_vars
    /\ [](det_pc = "done" => ~det_running)
    /\ [][det_pc' = "done" /\ det_pc # "done" => det_pc = "scan" /\ ~det_running]_vars
    /\ [](det_pc = "scan" /\ det_running => ENABLED DetScan)

\* a scan raised, and the detector is examining the snapshot of a later scan
C31_Witness ==
    /\ MsgScanErr \in stderr
    /\ det_pc = "check"
    /\ det_running
    /\ det_logs # << >>

\* C32: when the log file cannot be written, a log_line call still appends its entry
\* and prints it, leaves the file as it is and prints nothing on sys.stderr; the
\* caller goes on to its next log_line call (run makes all three of its opening
\* calls); every entry in the buffer was printed, and the file holds printed lines
\* only; and GET /logs is still answered, with the slice of the buffer.
C32_WriteFailureSwallowed ==
    /\ [][(~disk_ok /\ log_seq' # log_seq) =>
            /\ log_file' = log_file
            /\ stderr' = stderr
            /\ AppendedByStep # << >>
            /\ \A i \in DOMAIN AppendedByStep : AppendedByStep[i].message \in stdout']_vars
    /\ [](pc # "run" => { MsgStarted, MsgDeployment, MsgMonitoring } \subseteq stdout)
    /\ [](BufferMessages \subseteq stdout /\ log_file \subseteq stdout)
    /\ [][http_resp' # http_resp =>
            /\ http_resp'.status = 200
            /\ http_resp'.logs = get_recent_logs(DEFAULT_LINES)]_vars
    /\ [](ServerIdle => ENABLED HandleLogs(NoParam))

\* the disk failed before run's second opening line: the later lines were logged all
\* the same, and GET /logs returned entries that are not in the file
C32_Witness ==
    /\ ~disk_ok
    /\ MsgDeployment \notin log_file
    /\ http_resp.status = 200
    /\ \E i \in DOMAIN http_resp.logs : http_resp.logs[i].message \notin log_file
    /\ http_resp.logs = get_recent_logs(DEFAULT_LINES)
    /\ Len(log_buffer) = MAX_LOG_LINES

\* the twelve rules in their order: RuleMatches(k, line) is the predicate of rule k
\* on the stripped line, RuleOutput(k, line) what rule k returns
RuleMatches(k, line) ==
    LET low == Lower(line)
    IN  CASE k = 1  -> \E p \in noise_patterns : Contains(line, p)
          [] k = 2  -> Contains(line, "Pulling") \/ Contains(line, "Downloading")
          [] k = 3  -> Contains(line, "Pull complete") \/ Contains(line, "Download complete")
          [] k = 4  -> Contains(line, "Setting up") \/ Contains(line, "Unpacking")
          [] k = 5  -> Contains(low, "docker")
                       /\ (Contains(low, "start") \/ Contains(low, "enable"))
          [] k = 6  -> Contains(low, "nvidia") \/ Contains(low, "gpu") \/ Contains(low, "cuda")
          [] k = 7  -> Contains(low, "build-monitor") \/ Contains(low, "buildwatch")
          [] k = 8  -> Contains(line, "systemctl")
                       /\ (Contains(line, "enable") \/ Contains(line, "start"))
          [] k = 9  -> Contains(low, "error") \/ Contains(low, "failed")
          [] k = 10 -> Contains(low, "warn")
          [] k = 11 -> Contains(low, "success") \/ Contains(low, "complete")
                       \/ Contains(line, IconCheck)
          [] k = 12 -> \E w \in important_keywords : Contains(low, w)

RuleOutput(k, line) ==
    CASE k = 1  -> None
      [] k = 2  -> IconInbox \o " " \o line
      [] k = 3  -> IconCheck \o " " \o line
      [] k = 4  -> IF PackageStarts(line) # {}
                   THEN IconPackage \o " Installing " \o PackageToken(line)
                   ELSE IconPackage \o " " \o line
      [] k = 5  -> IconDocker \o " " \o line
      [] k = 6  -> IF Contains(line, "nvidia-smi") THEN IconGpu \o " GPU drivers verified"
                   ELSE IconGpu \o " " \o line
      [] k = 7  -> IconChart \o " " \o line
      [] k = 8  -> IconGear \o "  " \o line
      [] k = 9  -> IconCross \o " " \o line
      [] k = 10 -> IconWarn \o "  " \o line
      [] k = 11 -> IconCheck \o " " \o line
      [] k = 12 -> "   " \o line

\* the rules that match each line that can be read, and the output of the first of
\* them (None when there is none), computed once
RulesMatching ==
    [raw \in ProvLines \cup ClassifierLines |->
        { k \in 1..12 : RuleMatches(k, Strip(raw)) }]
FirstRuleOutput ==
    [raw \in ProvLines \cup ClassifierLines |->
        IF RulesMatching[raw] = {} THEN None
        ELSE RuleOutput(CHOOSE k \in RulesMatching[raw] :
                            \A j \in RulesMatching[raw] : k <= j, Strip(raw))]

\* C33: when the tail loop has read a non-blank line, the entry of category
\* cloud-init it appends carries the output of the first of the twelve rules that
\* matches the line, and it appends no such entry when that output is none: for a
\* noise line, whatever else the line contains, and for a line on which no rule
\* matches.
C33_FirstMatchWins ==
    [][(pc = "ci_tail" /\ lines_read' = lines_read + 1 /\ RStrip(cur_line') # "") =>
         LET out     == FirstRuleOutput[cur_line']
             entries == { i \in DOMAIN AppendedByStep :
                            AppendedByStep[i].category = "cloud-init" }
         IN  IF out = None THEN entries = {}
             ELSE entries = {1} /\ AppendedByStep[1].message = out]_vars

\* the lines read last were one that the service-manager rule and the error rule
\* both match, tagged by the earlier rule, and a noise line with an error keyword,
\* which left no entry
C33_Witness ==
    /\ pc = "ci_tail"
    /\ lines_read = 2
    /\ cur_line = "Processing triggers for libc-bin: 1 error"
    /\ {8, 9} \subseteq RulesMatching["systemctl start app failed"]
    /\ {1, 9} \subseteq RulesMatching[cur_line]
    /\ log_buffer[Len(log_buffer)].message = IconGear \o "  systemctl start app failed"

\* the level tokens and the keywords in the order they are tested, each with the
\* prefix of its tag
LevelTokens ==
    << << {"ERROR", " E "}, IconCross \o " " >>, << {"WARN", " W "}, IconWarn \o "  " >>,
       << {"INFO", " I "}, IconInfo \o "  " >>, << {"DEBUG", " D "}, IconBug \o " " >> >>
LevelKeywords ==
    << << {"error", "exception", "failed"}, IconCross \o " " >>,
       << {"warn"}, IconWarn \o "  " >>,
       << {"success", "started", "ready"}, IconCheck \o " " >> >>

\* the positions of table whose words occur in text
Present(table, text) ==
    { k \in DOMAIN table : \E w \in table[k][1] : Contains(text, w) }

\* the tag of a stripped container line: the first level token present if the line
\* has a date prefix and any token, else the first keyword present, else blanks
ContainerTag(line) ==
    LET levels   == IF HasDatePrefix(line) THEN Present(LevelTokens, line) ELSE {}
        keywords == Present(LevelKeywords, Lower(line))
    IN  IF levels # {}
        THEN LevelTokens[CHOOSE k \in levels : \A j \in levels : k <= j][2]
        ELSE IF keywords # {}
        THEN LevelKeywords[CHOOSE k \in keywords : \A j \in keywords : k <= j][2]
        ELSE "   "
ContainerTagOf ==
    [raw \in ContainerLines \cup LevelLines |-> ContainerTag(Strip(raw)) \o Strip(raw)]

\* C34: a followed container line that is not blank gives exactly one entry, of
\* category container, whose message is the stripped line behind the tag of the
\* first level token present (date prefix) or else of the first keyword present or
\* else blanks; a blank line gives none; and the history gives one container entry
\* for each of its lines.
C34_ContainerNeverSuppressed ==
    /\ [][(pc = "rt_follow" /\ lines_read' = lines_read + 1) =>
            IF Strip(cur_line') = "" THEN log_seq' = log_seq
            ELSE /\ Len(AppendedByStep) = 1
                 /\ AppendedByStep[1].category = "container"
                 /\ AppendedByStep[1].message = ContainerTagOf[cur_line']]_vars
    /\ [][(pc = "rt_history" /\ pc' = "rt_follow") =>
            /\ Len(AppendedByStep) = lines_read' - lines_read
            /\ \A i \in DOMAIN AppendedByStep : AppendedByStep[i].category = "container"]_vars

\* a line with a date prefix and the tokens WARN (as " W ") and INFO was tagged as
\* a warning, and then a line with no date prefix and no keyword was passed through
C34_Witness ==
    /\ pc = "rt_follow"
    /\ cur_line = "listening on :8080"
    /\ Len(log_buffer) >= 2
    /\ log_buffer[Len(log_buffer)].message = "   listening on :8080"
    /\ log_buffer[Len(log_buffer) - 1].message = IconWarn \o "  [2024-01-01] W cache INFO"
    /\ log_buffer[Len(log_buffer)].category = "container"

\* a subprocess of the streamer that runs and was not asked to terminate
LiveSubprocess == tail_proc = "alive" \/ follow_proc = "alive"

\* the safety part of C35: the tail runs in cloud-init only and the follow in runtime
\* only, never both; the phase is left with the tail ended or asked to terminate;
\* and the wait for a subprocess always has a way on, by its exit or by the timeout
SubprocessesScoped ==
    /\ [](tail_proc = "alive" => phase = CLOUD_INIT)
    /\ [](follow_proc = "alive" => phase = RUNTIME)
    /\ [][phase' # phase => tail_proc' # "alive"]_vars
    /\ [](pc = "ci_waitproc" => ENABLED CiProcExited \/ ENABLED CiProcWaitTimeout)
    /\ [](pc = "rt_waitproc" => ENABLED RtProcExited \/ ENABLED RtProcWaitTimeout)

\* C35: the subprocesses are scoped to their phases and waited for with a bound,
\* and once a stop is requested the streamer asks the subprocess it owns to
\* terminate: no subprocess stays live for ever after running has become false.
C35_SubprocessTerminatedOnStop ==
    /\ SubprocessesScoped
    /\ ~running ~> ~LiveSubprocess

\* a tail or follow command that cannot be started, or that runs over its timeout
SubprocessFailure ==
    \/ CiTailPopenFails
    \/ CiProcWaitTimeout
    \/ RtHistoryTimeout
    \/ \E hist \in Histories : RtPopenFails(hist)
    \/ RtProcWaitTimeout

\* what holds of every such failure: its report is the last entry the step appends,
\* the streaming of the phase is over, and neither the serving state nor the
\* detector is touched
FailureContained ==
    [][SubprocessFailure =>
          /\ AppendedByStep # << >>
          /\ pc' \in {"cs_start", "done"}
          /\ tail_proc' # "alive" /\ follow_proc' # "alive"
          /\ UNCHANGED << main_pc, running, det_vars, api_vars >>]_vars

\* C36: every failure of a tail or follow subprocess is contained, and the entry
\* that reports it has category error.
C36_FailuresLoggedAsError ==
    /\ FailureContained
    /\ [][SubprocessFailure =>
            AppendedByStep[Len(AppendedByStep)].category = "error"]_vars

IssueTypes      == { Signatures[k].type : k \in 1..5 }
IssueSeverities == { "warning", "error", "critical" }

\* issue a and issue b have the same type and the same evidence
SameEvidence(a, b) == a.type = b.type /\ a.line = b.line

\* C37: every issue of the IssueBuffer has a type among the five and a severity
\* among the three, and its evidence is at most 200 characters, the first 200 of a
\* message that was logged and that its check matches; at its publication that
\* message is in the scanned snapshot; and no issue has the type and the evidence
\* of one of the issues before it in the dedup window, so a message that agrees
\* with a published one on the type and the first 200 characters publishes nothing.
C37_EvidenceTruncated ==
    /\ [](\A i \in DOMAIN issues :
            /\ Len(issues[i].line) <= EVIDENCE_MAX
            /\ issues[i].type \in IssueTypes
            /\ issues[i].severity \in IssueSeverities
            /\ \E m \in stdout, k \in 1..5 :
                  /\ k \in MatchingChecks[m]
                  /\ issues[i].type = Signatures[k].type
                  /\ issues[i].severity = Signatures[k].severity
                  /\ issues[i].line = Truncate(m, EVIDENCE_MAX))
    /\ [][published' # published =>
            \E i \in DOMAIN det_logs :
                published'[Len(published')].line
                    = Truncate(det_logs[i].message, EVIDENCE_MAX)]_vars
    /\ [](\A i, j \in DOMAIN published :
            i < j /\ j - i <= DEDUP_WINDOW => ~SameEvidence(published[i], published[j]))

\* the two lines that differ behind the 200th character were in one snapshot, the
\* checks of its entries are over, and one connection issue was published for the two
C37_Witness ==
    /\ det_pc = "check"
    /\ PendingPairs = {}
    /\ \E i, j \in DOMAIN det_logs :
          /\ i < j
          /\ det_logs[i].message # det_logs[j].message
          /\ Len(det_logs[i].message) > EVIDENCE_MAX
          /\ Truncate(det_logs[i].message, EVIDENCE_MAX)
                = Truncate(det_logs[j].message, EVIDENCE_MAX)
    /\ Len(published) = 1
    /\ published[1].type = "connection"
    /\ Len(published[1].line) = EVIDENCE_MAX

\* the detector's next log_issue call is never held back by the bound on appends
DetectorNeverCapped ==
    det_pc = "check" /\ PendingPairs # {} => ENABLED DetPublish \/ ENABLED DetDuplicate

\* nothing is left to publish: every check that matches an entry of the scan window,
\* and every check still to come in the snapshot at hand, meets a recent issue with
\* its type and its evidence
Settled ==
    LET window == get_recent_logs(SCAN_WINDOW)
    IN  /\ \A i \in DOMAIN window : \A k \in MatchingChecks[window[i].message] :
              IsDuplicate(Candidate(k, window[i].message))
        /\ \A p \in PendingPairs : IsDuplicate(Candidate(p[2], det_logs[p[1]].message))

\* C38: the detector, scheduled again and again and never held back by a bound of
\* the model, comes to a point from which on nothing is left to publish; and with
\* nothing left to publish, a step in which the followed log delivers no line
\* changes neither the IssueBuffer nor the LogBuffer.
C38_FeedbackLoopTerminates ==
    /\ []DetectorNeverCapped
    /\ [](det_pc = "scan" => ENABLED DetScan)
    /\ [][Settled /\ pc \in {"rt_follow", "done"} /\ lines_read' = lines_read =>
            issues' = issues /\ published' = published /\ log_buffer' = log_buffer]_vars
    /\ <>[]Settled

\* the follow has ended, issues were published for echo entries of earlier issues,
\* and a scan of the last entries found nothing more to publish
C38_Witness ==
    /\ pc = "done"
    /\ det_pc = "check"
    /\ det_logs = get_recent_logs(SCAN_WINDOW)
    /\ PendingPairs = {}
    /\ Settled
    /\ \E i \in DOMAIN published : published[i].line \in EchoMessages
    /\ \A i \in DOMAIN det_logs : det_logs[i].category = "issue"

\* C39: cloud_init_complete and container_started are false at the start and no
\* step resets one that is true; container_started holds only in the phases
\* container startup and runtime; and the log_count of a /status answer is at most
\* the capacity of the LogBuffer.
C39_FlagsWriteOnce ==
    /\ ~cloud_init_complete /\ ~container_started
    /\ [][(cloud_init_complete => cloud_init_complete')
           /\ (container_started => container_started')]_vars
    /\ [](container_started => phase \in {CONTAINER_STARTUP, RUNTIME})
    /\ [](http_resp.path = "/status" =>
             /\ http_resp.body.log_count <= MAX_LOG_LINES
             /\ http_resp.body.log_count <= log_seq)

\* both flags are set, the daemon is stopping, and the last /status answer counted
\* a full LogBuffer after more entries were appended than it holds
C39_Witness ==
    /\ cloud_init_complete /\ container_started /\ phase = RUNTIME
    /\ ~running
    /\ http_resp.path = "/status"
    /\ http_resp.body.container_started
    /\ http_resp.body.log_count = MAX_LOG_LINES
    /\ log_seq > MAX_LOG_LINES

====
